---- MODULE Spec2Model ----
(***************************************************************************)
(* Ad lifecycle and moderation state machine of auto-sales-bot: the HTTP   *)
(* API (app/api.py), the bot handlers (app/handlers), the ad services      *)
(* (app/services) and the channel publisher (app/utils/publish.py).        *)
(*                                                                         *)
(* Every request handler is one action.  The database tables are the       *)
(* variables users, car_ads, plate_ads and ad_photos (row id = index).     *)
(* Engine volumes are kept in tenths of a litre (1.6 l = 16).              *)
(*                                                                         *)
(* last records the request just handled: its operation, target, caller,   *)
(* outcome, the side effects in the order they were attempted, and the     *)
(* status the target ad had before.  was_terminal is the set of the ads    *)
(* that have ever been rejected or sold, granted[k] the times of the       *)
(* calls the rate limiter has allowed for key k.  inflight holds the photo  *)
(* rows that a suspended collect_photo has added to its database session   *)
(* and that are not committed yet.  calls holds the position of every      *)
(* get_or_create_user call that runs in a database session of its own.     *)
(* ad_views is the table of the unique views, and reqs holds the position   *)
(* of every HTTP request that is suspended between its reads and its        *)
(* commit, with the values it has read.                                     *)
(***************************************************************************)
EXTENDS Integers, Sequences, FiniteSets, TLC

VARIABLES users, car_ads, plate_ads, ad_photos, fsm, store, channel, now, steps, last,
          was_terminal, granted, inflight, calls, ad_views, reqs

vars == <<users, car_ads, plate_ads, ad_photos, fsm, store, channel, now, steps, last,
         was_terminal, granted, inflight, calls, ad_views, reqs>>

db == <<users, car_ads, plate_ads, ad_photos>>

----------------------------------------------------------------------------
(* Bounds of the model *)

MaxAds == 2

MaxMsgs == 2

MaxSteps == 4

----------------------------------------------------------------------------
(* Program constants *)

MAX_CAR_PHOTOS == 10

MAX_PLATE_PHOTOS == 5

DUPLICATE_CHECK_SECONDS == 604800

AD_EXPIRY_SECONDS == 2592000

MaxYear == 2027

NULL == "<None>"

NoTime == -1

DEFAULT_REJECT_REASON == "Ne proshlo moderaciyu"

OWNER_DELETED_REASON == "Udaleno vladelcem"

TgIds == {101, 102}

Kinds == {"car", "plate"}

----------------------------------------------------------------------------
(* Cyrillic string constants of the source are written transliterated.     *)
(* JSON values of request bodies: every value has the same three fields so *)
(* that values of different JSON types can be compared.                    *)

JInt(n) == [t |-> "int", n |-> n, s |-> ""]

JStr(s) == [t |-> "str", n |-> 0, s |-> s]

JBool(b) == [t |-> "bool", n |-> IF b THEN 1 ELSE 0, s |-> ""]

JNull == [t |-> "null", n |-> 0, s |-> ""]

\* dict.get(field): the value, or None when the key is absent
Get(d, f) == IF f \in DOMAIN d THEN d[f] ELSE JNull

\* {**a, **b}
Merge(a, b) == [f \in (DOMAIN a) \cup (DOMAIN b) |-> IF f \in DOMAIN b THEN b[f] ELSE a[f]]

\* str.strip() on the strings of the model
Strip(s) == CASE s = " Camry " -> "Camry"
              [] s = "   " -> ""
              [] OTHER -> s

\* len() of a stripped string of the model
StrLen(s) == CASE s = "" -> 0
               [] s = "+7" -> 2
               [] s = "LONGTEXT" -> 2001
               [] OTHER -> 6

\* re.search(r"\d", s)
HasDigit(s) == s \in {"89001234567", "+7"}

\* str(val)
Str(v) == CASE v.t = "str" -> v.s
            [] v.t = "null" -> "None"
            [] v.t = "bool" -> IF v.n = 1 THEN "True" ELSE "False"
            [] OTHER -> "123"

\* val is None or (isinstance(val, str) and not val.strip())
IsBlank(v) == v.t = "null" \/ (v.t = "str" /\ Strip(v.s) = "")

\* int(val) succeeds (no ValueError / TypeError)
IntOk(v) == v.t \in {"int", "bool"}

\* val is not None and val != ""
Present(v) == ~(v.t = "null") /\ ~(v.t = "str" /\ v.s = "")

NumericStrings == {"89001234567"}

\* the number int(val) / float(val) returns
Num(v) == v.n

----------------------------------------------------------------------------
(* Validator: app/utils/validators.py.  Errors are returned as the list of  *)
(* the violated rules, in the order the code appends them.                  *)

\* static catalog brand -> models
BRANDS == [Toyota |-> {"Camry", "Corolla"}, Lada |-> {"Vesta"}]

FUEL_TYPE_MAP == {"benzin", "dizel", "gaz", "elektro", "gibrid"}

TRANSMISSION_MAP == {"mehanika", "avtomat", "robot", "variator"}

\* dict.get(field, default) with a string default
GetOr(d, f, default) == IF f \in DOMAIN d THEN d[f] ELSE JStr(default)

check_required_string(data, field, min_len, max_len) ==
    LET val == Get(data, field) IN
    IF IsBlank(val) THEN <<field \o ":required">>
    ELSE IF StrLen(Strip(Str(val))) < min_len \/ StrLen(Strip(Str(val))) > max_len
         THEN <<field \o ":length">>
         ELSE <<>>

check_optional_string(data, field, max_len) ==
    LET val == Get(data, field) IN
    IF IsBlank(val) THEN <<>>
    ELSE IF StrLen(Strip(Str(val))) > max_len THEN <<field \o ":length">> ELSE <<>>

check_phone(data) ==
    LET val == Get(data, "contact_phone") IN
    IF IsBlank(val) THEN <<"contact_phone:required">>
    ELSE IF StrLen(Strip(Str(val))) < 5 \/ StrLen(Strip(Str(val))) > 20
         THEN <<"contact_phone:length">>
         ELSE IF ~HasDigit(Strip(Str(val))) THEN <<"contact_phone:digits">> ELSE <<>>

\* a required integer field with bounds lo..hi (year, price)
check_required_int(data, field, lo, hi) ==
    LET val == Get(data, field) IN
    IF ~Present(val) THEN <<field \o ":required">>
    ELSE IF ~IntOk(val) THEN <<field \o ":number">>
         ELSE IF Num(val) < lo THEN <<field \o ":min">>
              ELSE IF Num(val) > hi THEN <<field \o ":max">> ELSE <<>>

\* an optional numeric field with bounds lo..hi (mileage, engine_volume)
check_optional_num(data, field, lo, hi) ==
    LET val == Get(data, field) IN
    IF ~Present(val) THEN <<>>
    ELSE IF ~IntOk(val) THEN <<field \o ":number">>
         ELSE IF Num(val) < lo THEN <<field \o ":min">>
              ELSE IF Num(val) > hi THEN <<field \o ":max">> ELSE <<>>

\* float(val) of the string "nan" succeeds and gives a value for which both
\* comparisons of the range check are false
IsNaN(v) == v.t = "str" /\ v.s = "nan"

\* an optional float field with bounds lo..hi (engine_volume)
check_optional_float(data, field, lo, hi) ==
    IF IsNaN(Get(data, field)) THEN <<>> ELSE check_optional_num(data, field, lo, hi)

\* an optional field that must be a key of a mapping (fuel_type, transmission)
check_optional_enum(data, field, mapping) ==
    LET val == Get(data, field) IN
    IF ~Present(val) THEN <<>>
    ELSE IF Str(val) \notin mapping THEN <<field \o ":enum">> ELSE <<>>

check_catalog(data) ==
    LET brand_val == Strip(Str(GetOr(data, "brand", "")))
        model_val == Strip(Str(GetOr(data, "model", "")))
    IN  IF brand_val # "" /\ brand_val # "Drugaya"
        THEN IF brand_val \notin DOMAIN BRANDS THEN <<"brand:catalog">>
             ELSE IF model_val # "" /\ model_val # "Drugaya" /\ model_val \notin BRANDS[brand_val]
                  THEN <<"model:catalog">> ELSE <<>>
        ELSE <<>>

validate_car_ad(data) ==
    check_required_string(data, "brand", 1, 100)
    \o check_required_string(data, "model", 1, 100)
    \o check_catalog(data)
    \o check_required_int(data, "year", 1960, MaxYear)
    \o check_required_int(data, "price", 1, 100000000)
    \o check_optional_num(data, "mileage", 0, 10000000)
    \o check_optional_float(data, "engine_volume", 1, 200)
    \o check_optional_enum(data, "fuel_type", FUEL_TYPE_MAP)
    \o check_optional_enum(data, "transmission", TRANSMISSION_MAP)
    \o check_required_string(data, "city", 1, 100)
    \o check_phone(data)
    \o check_optional_string(data, "description", 2000)

validate_plate_ad(data) ==
    check_required_string(data, "plate_number", 1, 20)
    \o check_required_int(data, "price", 1, 50000000)
    \o check_required_string(data, "city", 1, 100)
    \o check_phone(data)
    \o check_optional_string(data, "description", 2000)

\* the validator of a kind of ad
validator_fn(k, data) == IF k = "car" THEN validate_car_ad(data) ELSE validate_plate_ad(data)

\* a key the payload does not carry
Absent == [t |-> "absent", n |-> 0, s |-> ""]

\* the payload of a choice of one value, or of no value, for every field
Payload(c) == [f \in {g \in DOMAIN c : c[g] # Absent} |-> c[f]]

CarChoices ==
    [brand : {JStr("Toyota"), JStr("Drugaya"), JStr("Zaz"), Absent},
     model : {JStr("Camry"), JStr("Vesta"), JNull},
     year : {JInt(2020), JInt(1950), JStr("abc"), Absent},
     price : {JInt(1500000), JInt(0), JNull},
     mileage : {Absent, JInt(-1)},
     engine_volume : {Absent, JInt(300), JStr("nan")},
     fuel_type : {Absent, JStr("voda")},
     transmission : {JStr("avtomat"), JStr("ruchka")},
     city : {JStr("Moskva"), JStr("   ")},
     contact_phone : {JStr("89001234567"), JStr("+7"), JStr("abcdef")},
     description : {Absent, JStr("LONGTEXT")}]

PlateChoices ==
    [plate_number : {JStr("A777AA"), JStr(""), JStr("LONGTEXT")},
     price : {JInt(500000), JInt(0), JInt(60000000), JStr("abc"), Absent},
     city : {JStr("Moskva"), Absent},
     contact_phone : {JStr("89001234567"), JStr("+7"), JStr("abcdef")},
     description : {Absent, JStr("LONGTEXT")}]

ValidatorInputs(k) == {Payload(c) : c \in IF k = "car" THEN CarChoices ELSE PlateChoices}

----------------------------------------------------------------------------
(* Rows of the tables: app/models *)

CAR_REQUIRED_COLUMNS == {"brand", "model", "year", "mileage", "engine_volume", "fuel_type",
                         "transmission", "color", "price", "description", "city", "contact_phone"}

PLATE_REQUIRED_COLUMNS == {"plate_number", "price", "description", "city", "contact_phone"}

\* a new CarAd row: status defaults to pending, has_gbo to False; a CarAd
\* has no channel_message_id column
CarAd(user_id, brand, model, year, mileage, engine_volume, fuel_type, transmission, color, price, description, city, contact_phone, contact_telegram) ==
    [user_id |-> user_id, brand |-> brand, model |-> model, year |-> year,
     mileage |-> mileage, engine_volume |-> engine_volume, fuel_type |-> fuel_type,
     transmission |-> transmission, color |-> color, price |-> price,
     description |-> description, has_gbo |-> FALSE, region |-> NULL, city |-> city,
     contact_phone |-> contact_phone, contact_telegram |-> contact_telegram,
     status |-> "pending", rejection_reason |-> NULL, view_count |-> 0,
     expires_at |-> NoTime, created_at |-> now]

\* a new PlateAd row
PlateAd(user_id, plate_number, price, description, city, contact_phone, contact_telegram) ==
    [user_id |-> user_id, plate_number |-> plate_number, price |-> price,
     description |-> description, region |-> NULL, city |-> city,
     contact_phone |-> contact_phone, contact_telegram |-> contact_telegram,
     status |-> "pending", rejection_reason |-> NULL, view_count |-> 0,
     expires_at |-> NoTime, channel_message_id |-> 0, created_at |-> now]

AdPhoto(ad_type, ad_id, file_id, position) ==
    [ad_type |-> ad_type, ad_id |-> ad_id, file_id |-> file_id, position |-> position]

User(telegram_id, username, full_name) ==
    [telegram_id |-> telegram_id, username |-> username, full_name |-> full_name]

\* the mapped attributes of the User model
UserAttrs == {"id", "telegram_id", "username", "full_name", "phone", "is_admin",
              "created_at", "updated_at"}

Table(ad_type) == IF ad_type = "car" THEN car_ads ELSE plate_ads

\* select(model).where(model.id == ad_id) finds a row
Exists(ad_type, ad_id) == ad_id \in DOMAIN Table(ad_type)

\* select(AdPhoto).where(ad_type, ad_id).order_by(position)
PhotosOf(ad_type, ad_id) ==
    SelectSeq(ad_photos, LAMBDA p : p.ad_type = ad_type /\ p.ad_id = ad_id)

\* select(User).where(User.telegram_id == telegram_id): the row id, 0 if none
find_user(tbl, telegram_id) ==
    IF \E i \in DOMAIN tbl : tbl[i].telegram_id = telegram_id
    THEN CHOOSE i \in DOMAIN tbl : tbl[i].telegram_id = telegram_id
    ELSE 0

\* the users table after get_or_create_user, and the id it returns
get_or_create_user(tbl, telegram_id, username, full_name) ==
    LET found == find_user(tbl, telegram_id) IN
    IF found # 0
    THEN [users |-> [tbl EXCEPT ![found].username =
                                    IF username # NULL /\ @ # username THEN username ELSE @,
                                ![found].full_name =
                                    IF full_name # NULL /\ @ # full_name THEN full_name ELSE @],
          id |-> found]
    ELSE [users |-> Append(tbl, User(telegram_id, username,
                                     IF full_name \in {NULL, ""} THEN "User" ELSE full_name)),
          id |-> Len(tbl) + 1]

\* an ownership check that lets everybody through
IsOwner_any(ad, user_id_tg) == TRUE

\* owner and owner.telegram_id == user_id_tg
IsOwner(ad, user_id_tg) ==
    /\ ad.user_id \in DOMAIN users
    /\ users[ad.user_id].telegram_id = user_id_tg

----------------------------------------------------------------------------
(* Inputs of the model *)

\* message.from_user.username / full_name of a chat user
Username(tg) == IF tg = 101 THEN "alice" ELSE "bob"

FullName(tg) == IF tg = 101 THEN "Alice" ELSE "Bob"

CarFull == [type |-> JStr("car_ad"), brand |-> JStr("Toyota"), model |-> JStr(" Camry "),
            year |-> JInt(2020), mileage |-> JInt(50000), engine_volume |-> JInt(16),
            fuel_type |-> JStr("dizel"), transmission |-> JStr("avtomat"),
            color |-> JStr("black"), price |-> JInt(1500000), description |-> JStr("clean"),
            city |-> JStr("Moskva"), contact_phone |-> JStr("89001234567")]

\* the scenario payload of the specification: required fields only
CarMin == [type |-> JStr("car_ad"), brand |-> JStr("Toyota"), model |-> JStr("Camry"),
           year |-> JInt(2020), price |-> JInt(1500000), city |-> JStr("Moskva"),
           contact_phone |-> JStr("89001234567")]

CarNoPrice == [type |-> JStr("car_ad"), brand |-> JStr("Toyota"), model |-> JStr("Camry"),
               year |-> JInt(2020), city |-> JStr("Moskva"),
               contact_phone |-> JStr("89001234567")]

PlateMin == [type |-> JStr("plate_ad"), plate_number |-> JStr("A777AA"),
             price |-> JInt(500000), city |-> JStr("Moskva"),
             contact_phone |-> JStr("89001234567")]

Unknown == [type |-> JStr("bike_ad")]

Payloads == {CarFull, CarMin, CarNoPrice, PlateMin, Unknown}

EmptyBody == [f \in {} |-> JNull]

Res(op, ad_type, ad_id, caller, result, effects, body) ==
    [op |-> op, ad_type |-> ad_type, ad_id |-> ad_id, caller |-> caller,
     result |-> result, effects |-> effects, body |-> body,
     pre |-> IF ad_type = "car" /\ ad_id \in DOMAIN car_ads THEN car_ads[ad_id].status
             ELSE IF ad_type = "plate" /\ ad_id \in DOMAIN plate_ads THEN plate_ads[ad_id].status
             ELSE ""]

IdleSession == [state |-> "idle", ad_id |-> 0, ad_type |-> "", photo_count |-> 0]

\* a session that refers to the first ad, whatever ad was created
NewSession_first(ad_id, ad_type) ==
    [state |-> "waiting_photos", ad_id |-> 1, ad_type |-> ad_type, photo_count |-> 0]

\* set_state(waiting_photos) and the data ad_id, ad_type, photo_count = 0
NewSession(ad_id, ad_type) ==
    [state |-> "waiting_photos", ad_id |-> ad_id, ad_type |-> ad_type, photo_count |-> 0]

AdCount == Len(car_ads) + Len(plate_ads)

\* the photos router comes before the web_app router and its catch-all handler
\* takes every message of a user whose state is waiting_photos
InPhotoCollect(tg) == fsm[tg].state = "waiting_photos"

\* every request is one step of the bounded run
Tock == steps < MaxSteps /\ steps' = steps + 1

TERMINAL == {"rejected", "sold"}

\* the observer of the ads that have ever been rejected or sold, and of the
\* calls the rate limiter has allowed
Observe ==
    /\ was_terminal' = was_terminal
        \cup {<<"car", i>> : i \in {j \in DOMAIN car_ads' : car_ads'[j].status \in TERMINAL}}
        \cup {<<"plate", i>> : i \in {j \in DOMAIN plate_ads' : plate_ads'[j].status \in TERMINAL}}
    /\ granted' = IF \/ last'.op = "check" /\ last'.result = "Allowed"
                     \/ last'.op = "submit" /\ last'.result # "RateLimited"
                  THEN [granted EXCEPT ![last'.caller] = Append(@, now)]
                  ELSE granted

\* a handler that runs to its end leaves no uncommitted row behind
Track == Observe /\ UNCHANGED <<inflight, calls, ad_views, reqs>>

----------------------------------------------------------------------------
(* Bot database middleware (app/middlewares/db.py): the session of a bot    *)
(* handler is committed when the handler returns.                           *)

MiddlewareCommits == TRUE

----------------------------------------------------------------------------
(* handle_web_app_data: app/handlers/web_app.py *)

IsStr(data, f) == f \in DOMAIN data /\ data[f].t = "str"

OptStr(data, f) == f \notin DOMAIN data \/ data[f].t = "str"

IsInt(data, f) == f \in DOMAIN data /\ (IntOk(data[f]) \/ (data[f].t = "str" /\ data[f].s \in NumericStrings))

OptInt(data, f) == f \notin DOMAIN data \/ IntOk(data[f])

\* contact_tg.strip() or None when it is a string, else the value as sent
contact_telegram_of(data) ==
    LET v == Get(data, "contact_telegram") IN
    IF v.t = "str" THEN (IF Strip(v.s) = "" THEN NULL ELSE Strip(v.s)) ELSE NULL

\* the enum a mapping .get(value, default) returns
enum_of(data, f, mapping, default) ==
    LET v == GetOr(data, f, "") IN
    IF v.t = "str" /\ v.s \in mapping THEN v.s ELSE default

\* _create_car_ad raises no KeyError / AttributeError / ValueError
web_app_car_ok(data) ==
    /\ IsStr(data, "brand") /\ IsStr(data, "model") /\ IsStr(data, "city")
    /\ IsStr(data, "contact_phone")
    /\ IsInt(data, "year") /\ IsInt(data, "price")
    /\ OptInt(data, "mileage") /\ OptInt(data, "engine_volume")
    /\ OptStr(data, "color") /\ OptStr(data, "description")

web_app_create_car_ad(user_id, data) ==
    CarAd(user_id, Strip(data.brand.s), Strip(data.model.s), Num(data.year),
          IF "mileage" \in DOMAIN data THEN Num(data.mileage) ELSE 0,
          IF "engine_volume" \in DOMAIN data THEN Num(data.engine_volume) ELSE 0,
          enum_of(data, "fuel_type", FUEL_TYPE_MAP, "benzin"),
          enum_of(data, "transmission", TRANSMISSION_MAP, "mehanika"),
          Strip(GetOr(data, "color", "").s), Num(data.price),
          Strip(GetOr(data, "description", "").s), Strip(data.city.s),
          Strip(data.contact_phone.s), contact_telegram_of(data))

web_app_plate_ok(data) ==
    /\ IsStr(data, "plate_number") /\ IsStr(data, "city") /\ IsStr(data, "contact_phone")
    /\ IsInt(data, "price") /\ OptStr(data, "description")

web_app_create_plate_ad(user_id, data) ==
    PlateAd(user_id, Strip(data.plate_number.s), Num(data.price),
            Strip(GetOr(data, "description", "").s), Strip(data.city.s),
            Strip(data.contact_phone.s), contact_telegram_of(data))

HandleWebAppData ==
    \E tg \in TgIds, data \in Payloads :
        LET ad_type == Get(data, "type")
            u == get_or_create_user(users, tg, Username(tg), FullName(tg))
            kind == IF ad_type.s = "car_ad" THEN "car" ELSE "plate"
            ok == IF kind = "car" THEN web_app_car_ok(data) ELSE web_app_plate_ok(data)
        IN
        /\ Tock
        /\ AdCount < MaxAds
        /\ ~InPhotoCollect(tg)
        /\ UNCHANGED <<ad_photos, store, channel, now>>
        /\ IF ~(ad_type.t = "str" /\ ad_type.s \in {"car_ad", "plate_ad"})
           THEN /\ last' = Res("web_app_data", "", 0, tg, "InvalidData", <<>>, data)
                /\ UNCHANGED <<users, car_ads, plate_ads, fsm>>
           ELSE IF ~ok
           THEN \* the exception is caught by the handler; the user row was flushed
                /\ last' = Res("web_app_data", kind, 0, tg, "Error", <<>>, data)
                /\ users' = IF MiddlewareCommits THEN u.users ELSE users
                /\ UNCHANGED <<car_ads, plate_ads, fsm>>
           ELSE /\ users' = IF MiddlewareCommits THEN u.users ELSE users
                /\ car_ads' = IF kind = "car" /\ MiddlewareCommits
                              THEN Append(car_ads, web_app_create_car_ad(u.id, data))
                              ELSE car_ads
                /\ plate_ads' = IF kind = "plate" /\ MiddlewareCommits
                                THEN Append(plate_ads, web_app_create_plate_ad(u.id, data))
                                ELSE plate_ads
                /\ fsm' = [fsm EXCEPT ![tg] = NewSession(Len(Table(kind)) + 1, ad_type.s)]
                /\ last' = Res("web_app_data", kind, Len(Table(kind)) + 1, tg, "OK",
                               <<"notify_admins">>, data)
        /\ Track

----------------------------------------------------------------------------
(* Moderation services: app/services/car_ad_service.py, plate_ad_service.py *)

AdIds == 1..MaxAds

\* session.commit() of a changed ad row
WriteRow(ad_type, ad_id, row) ==
    /\ car_ads' = IF ad_type = "car" THEN [car_ads EXCEPT ![ad_id] = row] ELSE car_ads
    /\ plate_ads' = IF ad_type = "plate" THEN [plate_ads EXCEPT ![ad_id] = row] ELSE plate_ads

approve_car_ad(ad) == [ad EXCEPT !.status = "approved"]

approve_plate_ad(ad) == [ad EXCEPT !.status = "approved"]

reject_car_ad(ad, reason) == [ad EXCEPT !.status = "rejected", !.rejection_reason = reason]

reject_plate_ad(ad, reason) == [ad EXCEPT !.status = "rejected", !.rejection_reason = reason]

approve_ad(ad_type, ad) == IF ad_type = "car" THEN approve_car_ad(ad) ELSE approve_plate_ad(ad)

reject_ad(ad_type, ad, reason) ==
    IF ad_type = "car" THEN reject_car_ad(ad, reason) ELSE reject_plate_ad(ad, reason)

----------------------------------------------------------------------------
(* Channel publisher: app/utils/publish.py and handlers/admin.py            *)
(* channel is the list of the posts ever sent; a post's message id is its   *)
(* index, live is FALSE once it was deleted.                                *)

\* a publication that never sends the photos
media_of_none(photos) == <<>>

\* the file ids of the media group of a post: photos[:10] in the order of
\* their positions
media_of(photos) == [i \in 1..(IF Len(photos) < 10 THEN Len(photos) ELSE 10) |-> photos[i].file_id]

\* a post of the channel: a media group when media is not empty (send_media_group),
\* else a text message (send_message)
Post(ad_type, ad_id, media) == [ad_type |-> ad_type, ad_id |-> ad_id, live |-> TRUE, media |-> media]

\* the transport can always fail; it fails when the channel of the model is full
SendOutcomes == IF Len(channel) < MaxMsgs THEN BOOLEAN ELSE {FALSE}

\* getattr(ad, "channel_message_id", None)
old_msg_id(ad) == IF "channel_message_id" \in DOMAIN ad THEN ad.channel_message_id ELSE 0

\* ad.channel_message_id = message_id; session.commit()
store_msg_id(ad, message_id) ==
    IF "channel_message_id" \in DOMAIN ad THEN [ad EXCEPT !.channel_message_id = message_id]
    ELSE ad

\* a publisher that gives up when the previous post cannot be deleted
publish_to_channel_strict(ad_type, ad_id, ad, photos, delOk, sendOk) == IF old_msg_id(ad) # 0 /\ ~(delOk /\ old_msg_id(ad) \in DOMAIN channel) THEN [channel |-> channel, ad |-> ad, effects |-> <<"delete_failed">>] ELSE IF sendOk THEN [channel |-> Append(IF old_msg_id(ad) # 0 THEN [channel EXCEPT ![old_msg_id(ad)].live = FALSE] ELSE channel, Post(ad_type, ad_id, media_of(photos))), ad |-> store_msg_id(ad, Len(channel) + 1), effects |-> (IF old_msg_id(ad) # 0 THEN <<"delete">> ELSE <<>>) \o <<"send", "commit">>] ELSE [channel |-> channel, ad |-> ad, effects |-> <<"send_failed">>]

\* publish_to_channel: delete the previous post, send, store the new id
publish_to_channel(ad_type, ad_id, ad, photos, delOk, sendOk) ==
    LET old == old_msg_id(ad)
        deleted == old # 0 /\ delOk /\ old \in DOMAIN channel
        ch1 == IF deleted THEN [channel EXCEPT ![old].live = FALSE] ELSE channel
        e1 == IF old = 0 THEN <<>> ELSE IF deleted THEN <<"delete">> ELSE <<"delete_failed">>
    IN  IF sendOk
        THEN [channel |-> Append(ch1, Post(ad_type, ad_id, media_of(photos))),
              ad |-> store_msg_id(ad, Len(ch1) + 1),
              effects |-> e1 \o <<"send", "commit">>]
        ELSE [channel |-> ch1, ad |-> ad, effects |-> e1 \o <<"send_failed">>]

\* _publish_to_channel of the bot handler: send only
bot_publish_to_channel(ad_type, ad_id, ad, photos, sendOk) ==
    IF sendOk
    THEN [channel |-> Append(channel, Post(ad_type, ad_id, media_of(photos))), ad |-> ad,
          effects |-> <<"send">>]
    ELSE [channel |-> channel, ad |-> ad, effects |-> <<"send_failed">>]

----------------------------------------------------------------------------
(* admin_approve, admin_reject: app/api.py *)

\* bot.send_message to the owner inside try / except: sent, or failed and logged
Notify(ok) == IF ok THEN "notify" ELSE "notify_failed"

\* admin_approve as step number at most budget of a run
admin_approve(budget) ==
    \E ad_type \in Kinds, ad_id \in AdIds, notifyOk \in BOOLEAN :
        /\ steps < budget /\ steps' = steps + 1
        /\ UNCHANGED <<users, ad_photos, fsm, store, now>>
        /\ IF ~Exists(ad_type, ad_id)
           THEN /\ last' = Res("approve", ad_type, ad_id, 0, "NotFound", <<>>, EmptyBody)
                /\ UNCHANGED <<car_ads, plate_ads, channel>>
           ELSE \E sendOk \in SendOutcomes,
                   delOk \in (IF old_msg_id(Table(ad_type)[ad_id]) # 0 THEN BOOLEAN ELSE {FALSE}) :
                LET ad == approve_ad(ad_type, Table(ad_type)[ad_id])
                    pub == publish_to_channel(ad_type, ad_id, ad, PhotosOf(ad_type, ad_id), delOk, sendOk)
                IN  /\ WriteRow(ad_type, ad_id, pub.ad)
                    /\ channel' = pub.channel
                    /\ last' = Res("approve", ad_type, ad_id, 0, "OK",
                                   <<"commit">> \o <<Notify(notifyOk)>> \o pub.effects,
                                   EmptyBody)
        /\ Track

AdminApprove == admin_approve(MaxSteps)

MaxLateSteps == 6

\* admin_approve after a collector session
LateApprove == admin_approve(MaxLateSteps)

Reasons == {NULL, "spam"}

AdminReject ==
    \E ad_type \in Kinds, ad_id \in AdIds, given \in Reasons, notifyOk \in BOOLEAN :
        LET reason == IF given # NULL /\ given # "" THEN given ELSE DEFAULT_REJECT_REASON IN
        /\ Tock
        /\ UNCHANGED <<users, ad_photos, fsm, store, channel, now>>
        /\ IF ~Exists(ad_type, ad_id)
           THEN /\ last' = Res("reject", ad_type, ad_id, 0, "NotFound", <<>>, EmptyBody)
                /\ UNCHANGED <<car_ads, plate_ads>>
           ELSE /\ WriteRow(ad_type, ad_id, reject_ad(ad_type, Table(ad_type)[ad_id], reason))
                /\ last' = Res("reject", ad_type, ad_id, 0, "OK",
                               <<"commit">> \o <<Notify(notifyOk)>>, [reason |-> JStr(given)])
        /\ Track

----------------------------------------------------------------------------
(* handle_moderation: app/handlers/admin.py (bot callback mod:approve / mod:reject) *)

HandleModeration ==
    \E action \in {"approve", "reject"}, ad_type \in Kinds, ad_id \in AdIds, notifyOk \in BOOLEAN :
        /\ Tock
        /\ UNCHANGED <<users, ad_photos, fsm, store, now>>
        /\ IF ~Exists(ad_type, ad_id)
           THEN /\ last' = Res("bot_" \o action, ad_type, ad_id, 0, "NotFound", <<>>, EmptyBody)
                /\ UNCHANGED <<car_ads, plate_ads, channel>>
           ELSE IF action = "approve"
           THEN \E sendOk \in SendOutcomes :
                LET ad == approve_ad(ad_type, Table(ad_type)[ad_id])
                    pub == bot_publish_to_channel(ad_type, ad_id, ad, PhotosOf(ad_type, ad_id), sendOk)
                IN  /\ IF MiddlewareCommits THEN WriteRow(ad_type, ad_id, pub.ad)
                                            ELSE UNCHANGED <<car_ads, plate_ads>>
                    /\ channel' = pub.channel
                    /\ last' = Res("bot_approve", ad_type, ad_id, 0, "OK",
                                   <<Notify(notifyOk)>> \o pub.effects \o <<"commit">>,
                                   EmptyBody)
           ELSE LET ad == reject_ad(ad_type, Table(ad_type)[ad_id], DEFAULT_REJECT_REASON)
                IN  /\ IF MiddlewareCommits THEN WriteRow(ad_type, ad_id, ad)
                                            ELSE UNCHANGED <<car_ads, plate_ads>>
                    /\ UNCHANGED channel
                    /\ last' = Res("bot_reject", ad_type, ad_id, 0, "OK",
                                   <<Notify(notifyOk)>> \o <<"commit">>, EmptyBody)
        /\ Track

----------------------------------------------------------------------------
(* mark_as_sold, _delete_ad: app/api.py *)

MarkAsSold ==
    \E ad_type \in Kinds, ad_id \in AdIds, user_id_tg \in TgIds :
        /\ Tock
        /\ UNCHANGED <<users, ad_photos, fsm, store, channel, now>>
        /\ IF ~Exists(ad_type, ad_id)
           THEN /\ last' = Res("markSold", ad_type, ad_id, user_id_tg, "NotFound", <<>>, EmptyBody)
                /\ UNCHANGED <<car_ads, plate_ads>>
           ELSE IF ~IsOwner(Table(ad_type)[ad_id], user_id_tg)
           THEN /\ last' = Res("markSold", ad_type, ad_id, user_id_tg, "Forbidden", <<>>, EmptyBody)
                /\ UNCHANGED <<car_ads, plate_ads>>
           ELSE /\ WriteRow(ad_type, ad_id, [Table(ad_type)[ad_id] EXCEPT !.status = "sold"])
                /\ last' = Res("markSold", ad_type, ad_id, user_id_tg, "OK", <<"commit">>, EmptyBody)
        /\ Track

DeleteAd ==
    \E ad_type \in Kinds, ad_id \in AdIds, user_id_tg \in TgIds :
        /\ Tock
        /\ UNCHANGED <<users, ad_photos, fsm, store, channel, now>>
        /\ IF ~Exists(ad_type, ad_id)
           THEN /\ last' = Res("softDelete", ad_type, ad_id, user_id_tg, "NotFound", <<>>, EmptyBody)
                /\ UNCHANGED <<car_ads, plate_ads>>
           ELSE IF ~IsOwner(Table(ad_type)[ad_id], user_id_tg)
           THEN /\ last' = Res("softDelete", ad_type, ad_id, user_id_tg, "Forbidden", <<>>, EmptyBody)
                /\ UNCHANGED <<car_ads, plate_ads>>
           ELSE /\ WriteRow(ad_type, ad_id,
                            [Table(ad_type)[ad_id] EXCEPT !.status = "rejected",
                                                          !.rejection_reason = OWNER_DELETED_REASON])
                /\ last' = Res("softDelete", ad_type, ad_id, user_id_tg, "OK", <<"commit">>, EmptyBody)
        /\ Track

----------------------------------------------------------------------------
(* _edit_ad: app/api.py *)

CAR_ALLOWED_FIELDS == {"brand", "model", "year", "mileage", "engine_volume", "fuel_type",
                       "transmission", "color", "price", "description", "region", "city",
                       "contact_phone", "contact_telegram", "has_gbo"}

PLATE_ALLOWED_FIELDS == {"plate_number", "price", "description", "region", "city",
                         "contact_phone", "contact_telegram"}

AllowedFields(ad_type) == IF ad_type = "car" THEN CAR_ALLOWED_FIELDS ELSE PLATE_ALLOWED_FIELDS

RequiredColumns(ad_type) ==
    IF ad_type = "car" THEN CAR_REQUIRED_COLUMNS ELSE PLATE_REQUIRED_COLUMNS

NumberColumns == {"year", "mileage", "price", "engine_volume"}

\* _safe_int / _safe_float with default 0
safe_int(v) ==
    IF v.t \in {"int", "bool"} THEN v.n ELSE 0

\* current_data[field] = getattr(ad, field, None), an enum as its value
current_data(ad_type, ad) ==
    [f \in AllowedFields(ad_type) |->
        IF f \notin DOMAIN ad THEN JNull
        ELSE IF f \in NumberColumns THEN JInt(ad[f])
        ELSE IF f = "has_gbo" THEN JBool(ad[f])
        ELSE IF ad[f] = NULL THEN JNull ELSE JStr(ad[f])]

\* the converter of a car field, or str(value).strip() / None
car_convert(f, v, ad) ==
    IF f \in {"year", "mileage", "price", "engine_volume"} THEN safe_int(v)
    ELSE IF f = "fuel_type" THEN (IF v.t = "str" /\ v.s \in FUEL_TYPE_MAP THEN v.s ELSE ad.fuel_type)
    ELSE IF f = "transmission"
         THEN (IF v.t = "str" /\ v.s \in TRANSMISSION_MAP THEN v.s ELSE ad.transmission)
    ELSE IF f = "has_gbo" THEN (v.n # 0 \/ v.s # "")
    ELSE IF v.t = "null" THEN NULL ELSE Strip(Str(v))

plate_convert(f, v, ad) ==
    IF f = "price" THEN safe_int(v)
    ELSE IF v.t = "null" THEN NULL ELSE Strip(Str(v))

\* the setattr loop over body.items()
apply_updates(ad_type, ad, body) ==
    [f \in DOMAIN ad |->
        IF f \in DOMAIN body /\ f \in AllowedFields(ad_type)
        THEN IF ad_type = "car" THEN car_convert(f, body[f], ad) ELSE plate_convert(f, body[f], ad)
        ELSE ad[f]]

\* the status check of _edit_ad: only PENDING or APPROVED ads can be edited
EditableStatus(status) == status \in {"pending", "approved"}

\* a NOT NULL column holds None at commit (IntegrityError)
ViolatesNotNull(ad_type, ad) ==
    \E f \in RequiredColumns(ad_type) \ NumberColumns : ad[f] = NULL

PriceOnly == [price |-> JInt(1600000)]

PriceZero == [price |-> JInt(0)]

EngineOnly == [engine_volume |-> JInt(20)]

UnknownKey == [status |-> JStr("approved")]

ColorNull == [color |-> JNull]

\* an optional numeric field sent as null
EngineNull == [engine_volume |-> JNull]

Bodies == {PriceOnly, PriceZero, EngineOnly, UnknownKey, ColorNull, EngineNull, EmptyBody}

EditAd ==
    \E ad_type \in Kinds, ad_id \in AdIds, user_id_tg \in TgIds, body \in Bodies :
        /\ Tock
        /\ UNCHANGED <<users, ad_photos, fsm, store, channel, now>>
        /\ IF ~Exists(ad_type, ad_id)
           THEN /\ last' = Res("edit", ad_type, ad_id, user_id_tg, "NotFound", <<>>, body)
                /\ UNCHANGED <<car_ads, plate_ads>>
           ELSE LET ad == Table(ad_type)[ad_id]
                    merged == Merge(current_data(ad_type, ad), body)
                    errors == IF ad_type = "car" THEN validate_car_ad(merged)
                                                 ELSE validate_plate_ad(merged)
                    changed == apply_updates(ad_type, ad, body)
                    updated == (DOMAIN body) \cap AllowedFields(ad_type) # {}
                    new == IF updated /\ ad.status = "approved"
                           THEN [changed EXCEPT !.status = "pending"] ELSE changed
                IN  IF ~EditableStatus(ad.status)
                    THEN /\ last' = Res("edit", ad_type, ad_id, user_id_tg,
                                        "CannotEditTerminal", <<>>, body)
                         /\ UNCHANGED <<car_ads, plate_ads>>
                    ELSE IF ~IsOwner(ad, user_id_tg)
                    THEN /\ last' = Res("edit", ad_type, ad_id, user_id_tg, "Forbidden", <<>>, body)
                         /\ UNCHANGED <<car_ads, plate_ads>>
                    ELSE IF errors # <<>>
                    THEN /\ last' = Res("edit", ad_type, ad_id, user_id_tg,
                                        "ValidationErrors", errors, body)
                         /\ UNCHANGED <<car_ads, plate_ads>>
                    ELSE IF ViolatesNotNull(ad_type, changed)
                    THEN /\ last' = Res("edit", ad_type, ad_id, user_id_tg, "ServerError", <<>>, body)
                         /\ UNCHANGED <<car_ads, plate_ads>>
                    ELSE /\ WriteRow(ad_type, ad_id, new)
                         /\ last' = Res("edit", ad_type, ad_id, user_id_tg, "OK", <<"commit">>, body)
        /\ Track

----------------------------------------------------------------------------
(* Rate limiter: app/utils/rate_limiter.py.  store.keys[k] is the timestamp *)
(* list of key k (an absent key is the empty list).                         *)

RULE_SHORT == [max_requests |-> 3, window_seconds |-> 300, message |-> "max 3 per 5 minutes"]

RULE_LONG == [max_requests |-> 10, window_seconds |-> 3600, message |-> "max 10 per hour"]

submit_limits == <<RULE_SHORT, RULE_LONG>>

max_window == 3600

PURGE_INTERVAL == 600

\* a count that ignores the window
Recent_all(timestamps, t, window) == Len(timestamps)

\* sum(1 for ts in timestamps if ts > window_start)
Recent(timestamps, t, window) == Len(SelectSeq(timestamps, LAMBDA ts : ts > t - window))

\* a purge that runs on every call and deletes every key
maybe_purge_all(st, t) == [keys |-> [k \in DOMAIN st.keys |-> <<>>], last_purge |-> t]

\* _maybe_purge: drop the keys whose newest timestamp is outside the longest window
maybe_purge(st, t) ==
    IF t - st.last_purge < PURGE_INTERVAL THEN st
    ELSE [keys |-> [k \in DOMAIN st.keys |->
                        IF st.keys[k] = <<>> \/ st.keys[k][Len(st.keys[k])] <= t - max_window
                        THEN <<>> ELSE st.keys[k]],
          last_purge |-> t]

\* a limit that lets one request too many through
exceeded_late(timestamps, t, limit) ==
    Recent(timestamps, t, limit.window_seconds) > limit.max_requests

\* if recent >= limit.max_requests
exceeded(timestamps, t, limit) ==
    Recent(timestamps, t, limit.window_seconds) >= limit.max_requests

\* a check that records the denied request too
recorded_always(timestamps, t, denied) == Append(timestamps, t)

\* timestamps.append(now), reached only when no limit denies
recorded(timestamps, t, denied) == IF denied THEN timestamps ELSE Append(timestamps, t)

\* a check that answers and leaves the store as it was
check_peek(st, key, t) ==
    LET timestamps == SelectSeq(st.keys[key], LAMBDA ts : ts > t - max_window)
        denying == {i \in DOMAIN submit_limits : exceeded(timestamps, t, submit_limits[i])}
        first == CHOOSE i \in denying : \A j \in denying : i <= j
    IN  [store |-> st,
         denied |-> denying # {},
         message |-> IF denying # {} THEN submit_limits[first].message ELSE NULL]

\* check(key): the new store, denied and the message of the first rule that denies
check(st, key, t) ==
    LET purged == maybe_purge(st, t)
        timestamps == SelectSeq(purged.keys[key], LAMBDA ts : ts > t - max_window)
        denying == {i \in DOMAIN submit_limits : exceeded(timestamps, t, submit_limits[i])}
        first == CHOOSE i \in denying : \A j \in denying : i <= j
    IN  [store |-> [purged EXCEPT !.keys[key] = recorded(timestamps, t, denying # {})],
         denied |-> denying # {},
         message |-> IF denying # {} THEN submit_limits[first].message ELSE NULL]

----------------------------------------------------------------------------
(* handle_submit: app/api.py (POST /api/submit) *)

\* the keyword parameters create_car_ad / create_plate_ad accept
create_car_ad_params == {"user_id", "brand", "model", "year", "mileage", "engine_volume",
                         "fuel_type", "transmission", "color", "price", "description", "city",
                         "contact_phone", "contact_telegram", "photo_file_ids"}

create_plate_ad_params == {"user_id", "plate_number", "price", "description", "city",
                           "contact_phone", "contact_telegram", "photo_file_ids"}

\* the keyword arguments handle_submit passes to them
submit_car_kwargs == {"user_id", "brand", "model", "year", "mileage", "engine_volume",
                      "fuel_type", "transmission", "color", "price", "description", "region",
                      "city", "contact_phone", "contact_telegram", "has_gbo"}

submit_plate_kwargs == {"user_id", "plate_number", "price", "description", "region", "city",
                        "contact_phone", "contact_telegram"}

\* a create call that takes every keyword it is given
CreateCallBinds_any(kind) == kind \in Kinds

\* the call binds its arguments (no TypeError: unexpected keyword argument)
CreateCallBinds(kind) ==
    IF kind = "car" THEN submit_car_kwargs \subseteq create_car_ad_params
                    ELSE submit_plate_kwargs \subseteq create_plate_ad_params

\* str(data.get(field, "")).strip()
StrField(data, f) == Strip(Str(GetOr(data, f, "")))

OrDefault(s, default) == IF s = "" THEN default ELSE s

submit_create_car_ad(user_id, data) ==
    [CarAd(user_id, OrDefault(StrField(data, "brand"), "Bez marki"),
           OrDefault(StrField(data, "model"), "Bez modeli"),
           IF Present(Get(data, "year")) THEN safe_int(Get(data, "year")) ELSE 2020,
           safe_int(Get(data, "mileage")), safe_int(Get(data, "engine_volume")),
           enum_of(data, "fuel_type", FUEL_TYPE_MAP, "benzin"),
           enum_of(data, "transmission", TRANSMISSION_MAP, "mehanika"),
           StrField(data, "color"), safe_int(Get(data, "price")),
           StrField(data, "description"), OrDefault(StrField(data, "city"), "Drugoy"),
           StrField(data, "contact_phone"), contact_telegram_of(data))
     EXCEPT !.region = IF StrField(data, "region") = "" THEN NULL ELSE StrField(data, "region"),
            !.has_gbo = (Get(data, "has_gbo").n # 0 \/ Get(data, "has_gbo").s # ""),
            !.expires_at = now + AD_EXPIRY_SECONDS]

submit_create_plate_ad(user_id, data) ==
    [PlateAd(user_id, StrField(data, "plate_number"), safe_int(Get(data, "price")),
             StrField(data, "description"), OrDefault(StrField(data, "city"), "Drugoy"),
             StrField(data, "contact_phone"), contact_telegram_of(data))
     EXCEPT !.region = IF StrField(data, "region") = "" THEN NULL ELSE StrField(data, "region"),
            !.expires_at = now + AD_EXPIRY_SECONDS]

\* the files of the upload directory
UPLOAD_DIR == {"loc_a", "loc_b"}

\* is_local_photo(pid) and get_photo_path(pid)
ValidPhoto(pid) == pid \in UPLOAD_DIR

\* photo_ids[:10] filtered by validity
valid_photos(photo_ids) == SelectSeq(SubSeq(photo_ids, 1, IF Len(photo_ids) < 10 THEN Len(photo_ids) ELSE 10), ValidPhoto)

\* the rows of the same user that the duplicate query selects
dupes(kind, user_id, data) ==
    IF kind = "car"
    THEN {i \in DOMAIN car_ads :
            /\ car_ads[i].user_id = user_id
            /\ car_ads[i].brand = StrField(data, "brand")
            /\ car_ads[i].model = StrField(data, "model")
            /\ car_ads[i].year = safe_int(Get(data, "year"))
            /\ car_ads[i].created_at > now - DUPLICATE_CHECK_SECONDS
            /\ car_ads[i].status # "rejected"}
    ELSE {i \in DOMAIN plate_ads :
            /\ plate_ads[i].user_id = user_id
            /\ plate_ads[i].plate_number = StrField(data, "plate_number")
            /\ plate_ads[i].created_at > now - DUPLICATE_CHECK_SECONDS
            /\ plate_ads[i].status # "rejected"}

PhotoLists == {<<>>, <<"loc_a", "loc_b">>, <<"tg_x", "loc_a">>}

SubmitPayloads == {CarMin, CarNoPrice, PlateMin}

\* a rejected request that has written the row of its user all the same
NoCommit_flushed(tbl, tg) == get_or_create_user(tbl, tg, NULL, NULL).users

\* the user table after a request of tg that returns before session.commit():
\* what its session has added or changed is discarded
NoCommit(tbl, tg) == tbl

\* the request body with its photo_ids and force members
Request(data, photo_ids, force) == [data |-> data, photo_ids |-> photo_ids, force |-> force]

HandleSubmit ==
    \E tg \in TgIds, data \in SubmitPayloads, photo_ids \in PhotoLists, force \in BOOLEAN :
        LET req == Request(data, photo_ids, force)
            kind == IF Get(data, "type").s = "car_ad" THEN "car" ELSE "plate"
            lim == check(store, tg, now)
            user_check == find_user(users, tg)
            errors == IF kind = "car" THEN validate_car_ad(data) ELSE validate_plate_ad(data)
            u == get_or_create_user(users, tg, NULL, NULL)
            dupe == dupes(kind, u.id, data)
            ad_id == Len(Table(kind)) + 1
            row == IF kind = "car" THEN submit_create_car_ad(u.id, data)
                                   ELSE submit_create_plate_ad(u.id, data)
            photos == valid_photos(photo_ids)
            has_photos == photos # <<>>
            ad == IF has_photos THEN [row EXCEPT !.status = "approved"] ELSE row
            Fail(result, effects) ==
                /\ last' = Res("submit", kind, 0, tg, result, effects, req)
                /\ users' = NoCommit(users, tg)
                /\ UNCHANGED <<car_ads, plate_ads, ad_photos, fsm, channel>>
        IN
        /\ Tock
        /\ UNCHANGED now
        /\ store' = lim.store
        /\ IF lim.denied THEN Fail("RateLimited", <<lim.message>>)
           ELSE IF user_check # 0 /\ "is_banned" \notin UserAttrs
           THEN Fail("ServerError", <<"AttributeError">>)
           ELSE IF user_check # 0 /\ users[user_check].is_banned
           THEN Fail("Forbidden", <<>>)
           ELSE IF errors # <<>> THEN Fail("ValidationErrors", errors)
           ELSE IF Cardinality(dupe) > 1 THEN Fail("ServerError", <<"MultipleResultsFound">>)
           ELSE IF dupe # {} /\ ~force THEN Fail("DuplicateConflict", <<>>)
           ELSE IF ~CreateCallBinds(kind) THEN Fail("ServerError", <<"TypeError">>)
           ELSE \E msgOk \in BOOLEAN, sendOk \in (IF has_photos THEN SendOutcomes ELSE {FALSE}) :
                LET rows == [i \in 1..Len(photos) |-> AdPhoto(kind, ad_id, photos[i], i - 1)]
                    pub == publish_to_channel(kind, ad_id, ad, rows, FALSE, sendOk)
                IN
                /\ AdCount < MaxAds
                /\ users' = u.users
                /\ car_ads' = IF kind = "car" THEN Append(car_ads, pub.ad) ELSE car_ads
                /\ plate_ads' = IF kind = "plate" THEN Append(plate_ads, pub.ad) ELSE plate_ads
                /\ ad_photos' = ad_photos \o rows
                /\ IF has_photos
                   THEN /\ UNCHANGED fsm
                        /\ channel' = IF msgOk THEN pub.channel ELSE channel
                        /\ last' = IF msgOk
                                   THEN Res("submit", kind, ad_id, tg, "OK",
                                            <<"commit", "notify">> \o pub.effects, req)
                                   ELSE Res("submit", kind, ad_id, tg, "ServerError",
                                            <<"commit", "notify_failed">>, req)
                   ELSE /\ UNCHANGED channel
                        /\ fsm' = IF msgOk THEN [fsm EXCEPT ![tg] = NewSession(ad_id, Get(data, "type").s)]
                                  ELSE fsm
                        /\ last' = IF msgOk
                                   THEN Res("submit", kind, ad_id, tg, "OK",
                                            <<"commit", "notify">>, req)
                                   ELSE Res("submit", kind, ad_id, tg, "ServerError",
                                            <<"commit", "notify_failed">>, req)
        /\ Track

----------------------------------------------------------------------------
(* admin_generate_ad: app/api.py (POST /api/admin/generate) *)

\* settings.admin_ids
admin_ids == <<101>>

\* the keyword arguments admin_generate_ad passes to create_car_ad
generate_car_kwargs == {"user_id", "brand", "model", "year", "mileage", "engine_volume",
                        "fuel_type", "transmission", "color", "price", "description", "region",
                        "city", "contact_phone", "contact_telegram", "has_gbo"}

\* the call binds its arguments (no TypeError: unexpected keyword argument)
GenerateCallBinds == generate_car_kwargs \subseteq create_car_ad_params

\* random.sample(all_photo_ids, min(3, len(all_photo_ids)))
Samples(ids) ==
    LET n == IF Cardinality(ids) < 3 THEN Cardinality(ids) ELSE 3 IN
    {q \in [1..n -> ids] : \A i, j \in 1..n : i # j => q[i] # q[j]}

AdminGenerate ==
    \E brand \in DOMAIN BRANDS, has_gbo \in BOOLEAN :
      \E model \in BRANDS[brand] :
        LET admin_tg_id == IF admin_ids # <<>> THEN admin_ids[1] ELSE 0
            found == find_user(users, admin_tg_id)
            u == IF found # 0 THEN [users |-> users, id |-> found]
                 ELSE get_or_create_user(users, admin_tg_id, "admin", "Administrator")
            ad_id == Len(car_ads) + 1
            ad == [CarAd(u.id, brand, model, 2005, 0, 0, "benzin", "mehanika", "Belyy",
                         200000, "", "Moskva", "89001234567", NULL)
                   EXCEPT !.status = "approved", !.region = "Moskva", !.has_gbo = has_gbo,
                          !.expires_at = now + AD_EXPIRY_SECONDS]
            body == [brand |-> JStr(brand), model |-> JStr(model)]
        IN
        /\ Tock
        /\ UNCHANGED <<plate_ads, fsm, store, channel, now>>
        /\ IF admin_tg_id = 0
           THEN /\ last' = Res("generate", "car", 0, 0, "ServerError", <<"No admin configured">>, body)
                /\ UNCHANGED <<users, car_ads, ad_photos>>
           ELSE IF ~GenerateCallBinds
           THEN /\ last' = Res("generate", "car", 0, admin_tg_id, "ServerError", <<"TypeError">>, body)
                /\ UNCHANGED <<users, car_ads, ad_photos>>
           ELSE \E sampled \in Samples({ad_photos[i].file_id : i \in DOMAIN ad_photos}) :
                /\ AdCount < MaxAds
                /\ users' = u.users
                /\ car_ads' = Append(car_ads, ad)
                /\ ad_photos' = ad_photos \o
                       [i \in 1..Len(sampled) |-> AdPhoto("car", ad_id, sampled[i], i - 1)]
                /\ last' = Res("generate", "car", ad_id, admin_tg_id, "OK", <<"commit">>, body)
        /\ Track

----------------------------------------------------------------------------
(* The clock *)

Deltas == {301}

Tick ==
    \E d \in Deltas :
        /\ Tock
        /\ now' = now + d
        /\ last' = Res("tick", "", 0, 0, "", <<>>, EmptyBody)
        /\ UNCHANGED <<users, car_ads, plate_ads, ad_photos, fsm, store, channel>>
        /\ Track

----------------------------------------------------------------------------
(* The photo collector: app/handlers/photos.py.  Every handler runs for a   *)
(* user whose state is waiting_photos.                                      *)

MaxCollectSteps == 12

FSM_TIMEOUT_SECONDS == 3600

\* one handled message of the collector
CollectTock == steps < MaxCollectSteps /\ steps' = steps + 1

\* data.get("started_at", 0)
started_at_of(s) == IF "started_at" \in DOMAIN s THEN s.started_at ELSE 0

\* _check_fsm_timeout: the session is older than the timeout
check_fsm_timeout(s, t) == started_at_of(s) # 0 /\ t - started_at_of(s) > FSM_TIMEOUT_SECONDS

\* one maximum for both kinds
max_photos_ten(ad_type) == MAX_CAR_PHOTOS

\* MAX_CAR_PHOTOS if ad_type == "car_ad" else MAX_PLATE_PHOTOS
max_photos(ad_type) == IF ad_type = "car_ad" THEN MAX_CAR_PHOTOS ELSE MAX_PLATE_PHOTOS

\* AdType.CAR if ad_type == "car_ad" else AdType.PLATE
photo_ad_type(ad_type) == IF ad_type = "car_ad" THEN "car" ELSE "plate"

\* a count that is not written back
next_photo_count_stuck(photo_count) == photo_count

\* photo_count += 1
next_photo_count(photo_count) == photo_count + 1

\* a finish that leaves the session as it is
state_clear_noop(s) == s

\* state.clear(): no state and no data
state_clear(s) == IdleSession

\* the file ids of the photo messages
PhotoFiles == {"tg_x"}

\* skip_photos, done_photos: the timeout check, then _finish_and_publish
PressButton ==
    \E tg \in TgIds, button \in {"skip", "done"} :
        LET s == fsm[tg] IN
        /\ CollectTock
        /\ InPhotoCollect(tg)
        /\ fsm' = [fsm EXCEPT ![tg] = state_clear(s)]
        /\ last' = Res(button, photo_ad_type(s.ad_type), s.ad_id, tg,
                       IF check_fsm_timeout(s, now) THEN "Expired" ELSE "Finished",
                       <<"answer">>, [photo_count |-> JInt(s.photo_count)])
        /\ UNCHANGED <<users, car_ads, plate_ads, ad_photos, store, channel, now>>
        /\ Track

\* collect_photo
CollectPhoto ==
    \E tg \in TgIds, file_id \in PhotoFiles :
        LET s == fsm[tg]
            kind == photo_ad_type(s.ad_type)
            photo_count == next_photo_count(s.photo_count)
            body == [photo_count |-> JInt(s.photo_count)]
        IN
        /\ CollectTock
        /\ InPhotoCollect(tg)
        /\ UNCHANGED <<users, car_ads, plate_ads, store, channel, now>>
        /\ IF check_fsm_timeout(s, now)
           THEN /\ fsm' = [fsm EXCEPT ![tg] = state_clear(s)]
                /\ last' = Res("photo", kind, s.ad_id, tg, "Expired", <<"answer">>, body)
                /\ UNCHANGED ad_photos
           ELSE IF s.photo_count >= max_photos(s.ad_type)
           THEN /\ last' = Res("photo", kind, s.ad_id, tg, "LimitReached", <<"answer">>, body)
                /\ UNCHANGED <<fsm, ad_photos>>
           ELSE /\ ad_photos' = IF MiddlewareCommits
                                 THEN Append(ad_photos, AdPhoto(kind, s.ad_id, file_id, s.photo_count))
                                 ELSE ad_photos
                /\ fsm' = IF photo_count >= max_photos(s.ad_type)
                          THEN [fsm EXCEPT ![tg] = state_clear(s)]
                          ELSE [fsm EXCEPT ![tg].photo_count = photo_count]
                /\ last' = Res("photo", kind, s.ad_id, tg,
                               IF photo_count >= max_photos(s.ad_type) THEN "Finished"
                                                                        ELSE "Stored",
                               <<"answer">>, body)
        /\ Track

\* finish_photos: a typed done word; no timeout check
FinishPhotos ==
    \E tg \in TgIds :
        LET s == fsm[tg] IN
        /\ CollectTock
        /\ InPhotoCollect(tg)
        /\ fsm' = [fsm EXCEPT ![tg] = state_clear(s)]
        /\ last' = Res("finish", photo_ad_type(s.ad_type), s.ad_id, tg, "Finished",
                       <<"answer">>, [photo_count |-> JInt(s.photo_count)])
        /\ UNCHANGED <<users, car_ads, plate_ads, ad_photos, store, channel, now>>
        /\ Track

\* unknown_message_in_photos: any other message, a web_app_data message included
UnknownMessage ==
    \E tg \in TgIds :
        LET s == fsm[tg] IN
        /\ CollectTock
        /\ InPhotoCollect(tg)
        /\ last' = Res("unknown", photo_ad_type(s.ad_type), s.ad_id, tg, "Ignored",
                       <<"answer">>, [photo_count |-> JInt(s.photo_count)])
        /\ UNCHANGED <<users, car_ads, plate_ads, ad_photos, fsm, store, channel, now>>
        /\ Track

\* an hour and more passes, once in a run
LongWait ==
    /\ CollectTock
    /\ now <= FSM_TIMEOUT_SECONDS
    /\ now' = now + FSM_TIMEOUT_SECONDS + 1
    /\ last' = Res("tick", "", 0, 0, "", <<>>, EmptyBody)
    /\ UNCHANGED <<users, car_ads, plate_ads, ad_photos, fsm, store, channel>>
    /\ Track

----------------------------------------------------------------------------
(* The rate limiter on its own: calls of submit_limiter.check and the clock *)

MaxChecks == 6

LimiterDeltas == {100, 301}

\* one call of check(key); it is synchronous, so calls never overlap
LimiterCheck ==
    \E key \in TgIds :
        LET lim == check(store, key, now) IN
        /\ steps < MaxChecks
        /\ steps' = steps + 1
        /\ store' = lim.store
        /\ last' = Res("check", "", 0, key, IF lim.denied THEN "Denied" ELSE "Allowed",
                       IF lim.denied THEN <<lim.message>> ELSE <<>>, EmptyBody)
        /\ UNCHANGED <<users, car_ads, plate_ads, ad_photos, fsm, channel, now>>
        /\ Track

\* time.monotonic() advances between two calls
Elapse ==
    \E d \in LimiterDeltas :
        /\ steps < MaxChecks
        /\ steps' = steps + 1
        /\ now' = now + d
        /\ last' = Res("tick", "", 0, 0, "", <<>>, EmptyBody)
        /\ UNCHANGED <<users, car_ads, plate_ads, ad_photos, fsm, store, channel>>
        /\ Track

----------------------------------------------------------------------------
(* The photo collector with photo messages handled concurrently: every      *)
(* update is a task of its own.  A collect_photo task runs without          *)
(* suspension from its timeout check to update_data and state.clear() (the  *)
(* storage is the MemoryStorage of bot.py), is suspended in message.answer, *)
(* and its row is committed when the handler has returned.                  *)

MaxInflight == 2

MaxConcSteps == 6

\* collect_photo up to its first suspension
ReceivePhoto ==
    \E tg \in TgIds, file_id \in PhotoFiles :
        LET s == fsm[tg]
            kind == photo_ad_type(s.ad_type)
            photo_count == next_photo_count(s.photo_count)
            body == [photo_count |-> JInt(s.photo_count)]
        IN
        /\ steps < MaxConcSteps
        /\ steps' = steps + 1
        /\ InPhotoCollect(tg)
        /\ Len(inflight) < MaxInflight
        /\ UNCHANGED <<users, car_ads, plate_ads, ad_photos, store, channel, now, calls, ad_views, reqs>>
        /\ IF check_fsm_timeout(s, now)
           THEN /\ fsm' = [fsm EXCEPT ![tg] = state_clear(s)]
                /\ last' = Res("photo_received", kind, s.ad_id, tg, "Expired", <<>>, body)
                /\ UNCHANGED inflight
           ELSE IF s.photo_count >= max_photos(s.ad_type)
           THEN /\ last' = Res("photo_received", kind, s.ad_id, tg, "LimitReached", <<>>, body)
                /\ UNCHANGED <<fsm, inflight>>
           ELSE /\ inflight' = Append(inflight, AdPhoto(kind, s.ad_id, file_id, s.photo_count))
                /\ fsm' = IF photo_count >= max_photos(s.ad_type)
                          THEN [fsm EXCEPT ![tg] = state_clear(s)]
                          ELSE [fsm EXCEPT ![tg].photo_count = photo_count]
                /\ last' = Res("photo_received", kind, s.ad_id, tg, "Added", <<>>, body)
        /\ Observe

\* the handler of an added row returns and the middleware commits the row
CommitPhoto ==
    \E i \in DOMAIN inflight :
        /\ steps < MaxConcSteps
        /\ steps' = steps + 1
        /\ ad_photos' = IF MiddlewareCommits THEN Append(ad_photos, inflight[i]) ELSE ad_photos
        /\ inflight' = [j \in 1..(Len(inflight) - 1) |->
                            IF j < i THEN inflight[j] ELSE inflight[j + 1]]
        /\ last' = Res("photo_committed", inflight[i].ad_type, inflight[i].ad_id, 0, "Stored",
                       <<"answer", "commit">>, EmptyBody)
        /\ UNCHANGED <<users, car_ads, plate_ads, fsm, store, channel, now, calls, ad_views, reqs>>
        /\ Observe

----------------------------------------------------------------------------
(* get_or_create_user called concurrently: app/services/user_service.py.   *)
(* Every call runs in the database session of its request.  A session sees  *)
(* the committed rows and its own; users.telegram_id is unique, so an       *)
(* INSERT waits while another session holds an uncommitted row with the     *)
(* same telegram_id and fails with IntegrityError when such a row is        *)
(* committed.                                                              *)

MaxCalls == 3

Procs == 1..MaxCalls

IdleCall == [pc |-> "idle", tg |-> 0, ret |-> 0, via |-> ""]

\* an INSERT that no constraint stops
unique_violation_none(tbl, telegram_id) == FALSE

\* the unique index of users.telegram_id refuses the INSERT
unique_violation(tbl, telegram_id) ==
    \E i \in DOMAIN tbl : tbl[i].telegram_id = telegram_id

\* another session holds an uncommitted row with the same telegram_id
InsertWaits(p, telegram_id) ==
    \E q \in Procs \ {p} : calls[q].pc = "flushed" /\ calls[q].tg = telegram_id

CallStep(p, tg, result) ==
    /\ last' = Res("get_or_create_user", "", 0, tg, result, <<>>, EmptyBody)
    /\ UNCHANGED <<car_ads, plate_ads, ad_photos, fsm, store, channel, now, steps, inflight, ad_views, reqs>>
    /\ Observe

\* user = await _find_user(session, telegram_id)
FindUser ==
    \E p \in Procs, tg \in TgIds :
        /\ calls[p].pc = "idle"
        /\ calls' = [calls EXCEPT ![p] =
                        IF find_user(users, tg) # 0
                        THEN [pc |-> "returned", tg |-> tg, ret |-> find_user(users, tg),
                              via |-> "found"]
                        ELSE [pc |-> "selected", tg |-> tg, ret |-> 0, via |-> ""]]
        /\ UNCHANGED users
        /\ CallStep(p, tg, IF find_user(users, tg) # 0 THEN "Found" ELSE "None")

\* session.add(user); await session.flush()
FlushUser ==
    \E p \in Procs :
        LET tg == calls[p].tg IN
        /\ calls[p].pc = "selected"
        /\ ~InsertWaits(p, tg)
        /\ calls' = [calls EXCEPT ![p].pc =
                        IF unique_violation(users, tg) THEN "conflict" ELSE "flushed"]
        /\ UNCHANGED users
        /\ CallStep(p, tg, IF unique_violation(users, tg) THEN "IntegrityError" ELSE "Flushed")

\* except IntegrityError: await session.rollback(); _find_user again
RecoverUser ==
    \E p \in Procs :
        LET tg == calls[p].tg
            found == find_user(users, tg)
        IN
        /\ calls[p].pc = "conflict"
        /\ calls' = [calls EXCEPT ![p] =
                        IF found # 0
                        THEN [pc |-> "returned", tg |-> tg, ret |-> found, via |-> "reread"]
                        ELSE [pc |-> "raised", tg |-> tg, ret |-> 0, via |-> "reread"]]
        /\ UNCHANGED users
        /\ CallStep(p, tg, IF found # 0 THEN "Found" ELSE "Raised")

\* the request of the call commits its session
CommitUser ==
    \E p \in Procs :
        LET tg == calls[p].tg IN
        /\ calls[p].pc = "flushed"
        /\ users' = Append(users, User(tg, Username(tg), FullName(tg)))
        /\ calls' = [calls EXCEPT ![p] =
                        [pc |-> "returned", tg |-> tg, ret |-> Len(users) + 1, via |-> "created"]]
        /\ CallStep(p, tg, "Committed")

\* the request of the call ends without a commit: its row is discarded
AbortUser ==
    \E p \in Procs :
        /\ calls[p].pc = "flushed"
        /\ calls' = [calls EXCEPT ![p] =
                        [pc |-> "aborted", tg |-> calls[p].tg, ret |-> 0, via |-> "created"]]
        /\ UNCHANGED users
        /\ CallStep(p, calls[p].tg, "RolledBack")

----------------------------------------------------------------------------

----------------------------------------------------------------------------
(* HTTP requests that run concurrently.  Every request has a database       *)
(* session of its own (async with pool() as session); the isolation level   *)
(* is the one of the engine, READ COMMITTED unless configured otherwise:    *)
(* a statement sees what was committed before it, and an UPDATE writes the  *)
(* values the session computed.                                             *)

\* the isolation level of the engine, which app/database.py creates
ISOLATION_LEVEL == "READ COMMITTED"

MaxRequests == 2

Requests == 1..MaxRequests

IdleRequest == [pc |-> "idle", op |-> "", ad_type |-> "", ad_id |-> 0, caller |-> 0, seen |-> 0]

\* the steps of the runs with concurrent requests
MaxRaceSteps == 6

RaceTock == steps < MaxRaceSteps /\ steps' = steps + 1

----------------------------------------------------------------------------
(* get_car_ad, get_plate_ad: app/api.py (GET /api/cars/{id}, /api/plates/{id}) *)

AdView(user_id, ad_type, ad_id) == [user_id |-> user_id, ad_type |-> ad_type, ad_id |-> ad_id]

\* select(AdView).where(user_id, ad_type, ad_id) finds a row
viewed(rows, viewer_id, ad_type, ad_id) ==
    \E j \in DOMAIN rows : rows[j] = AdView(viewer_id, ad_type, ad_id)

\* anonymous callers have viewer id 0
ViewerIds == TgIds \cup {0}

\* the request up to its commit: the ad and the view row are read
ViewAd ==
    \E p \in Requests, ad_type \in Kinds, ad_id \in AdIds, viewer_id \in ViewerIds :
        /\ RaceTock
        /\ reqs[p].pc = "idle"
        /\ UNCHANGED <<users, car_ads, plate_ads, ad_photos, fsm, store, channel, now, ad_views>>
        /\ IF ~Exists(ad_type, ad_id) \/ Table(ad_type)[ad_id].status # "approved"
           THEN /\ last' = Res("view", ad_type, ad_id, viewer_id, "NotFound", <<>>, EmptyBody)
                /\ UNCHANGED reqs
           ELSE IF viewer_id = 0 \/ viewed(ad_views, viewer_id, ad_type, ad_id)
           THEN /\ last' = Res("view", ad_type, ad_id, viewer_id, "OK", <<>>, EmptyBody)
                /\ UNCHANGED reqs
           ELSE /\ reqs' = [reqs EXCEPT ![p] = [pc |-> "counting", op |-> "view",
                                                 ad_type |-> ad_type, ad_id |-> ad_id,
                                                 caller |-> viewer_id,
                                                 seen |-> Table(ad_type)[ad_id].view_count]]
                /\ last' = Res("view", ad_type, ad_id, viewer_id, "Reading", <<>>, EmptyBody)
        /\ Observe /\ UNCHANGED <<inflight, calls>>

\* session.commit(): INSERT of the view row, UPDATE of view_count with the
\* value computed from the count that was read
CommitView ==
    \E p \in Requests :
        LET r == reqs[p] IN
        /\ RaceTock
        /\ r.pc = "counting"
        /\ reqs' = [reqs EXCEPT ![p] = IdleRequest]
        /\ UNCHANGED <<users, ad_photos, fsm, store, channel, now>>
        /\ IF viewed(ad_views, r.caller, r.ad_type, r.ad_id)
           THEN \* uq_ad_view_user_ad: IntegrityError, nothing is written
                /\ last' = Res("view", r.ad_type, r.ad_id, r.caller, "ServerError",
                               <<"IntegrityError">>, EmptyBody)
                /\ UNCHANGED <<car_ads, plate_ads, ad_views>>
           ELSE IF ISOLATION_LEVEL # "READ COMMITTED"
                   /\ Table(r.ad_type)[r.ad_id].view_count # r.seen
           THEN \* the row was updated by a transaction that committed after the read
                /\ last' = Res("view", r.ad_type, r.ad_id, r.caller, "ServerError",
                               <<"SerializationFailure">>, EmptyBody)
                /\ UNCHANGED <<car_ads, plate_ads, ad_views>>
           ELSE /\ ad_views' = Append(ad_views, AdView(r.caller, r.ad_type, r.ad_id))
                /\ WriteRow(r.ad_type, r.ad_id,
                            [Table(r.ad_type)[r.ad_id] EXCEPT !.view_count = r.seen + 1])
                /\ last' = Res("view", r.ad_type, r.ad_id, r.caller, "OK", <<"commit">>, EmptyBody)
        /\ Observe /\ UNCHANGED <<inflight, calls>>

----------------------------------------------------------------------------
(* handle_submit as two steps of a request: everything up to the duplicate  *)
(* query, and the creation with its commit.  Other requests run in between, *)
(* at the awaits of the database calls.                                     *)

\* rate limit, ban check, validation, user, duplicate query (api.py 1263-1339)
SubmitCheck ==
    \E p \in Requests, tg \in TgIds, data \in SubmitPayloads, force \in BOOLEAN :
        LET req == Request(data, <<>>, force)
            kind == IF Get(data, "type").s = "car_ad" THEN "car" ELSE "plate"
            lim == check(store, tg, now)
            user_check == find_user(users, tg)
            errors == validator_fn(kind, data)
            u == get_or_create_user(users, tg, NULL, NULL)
            dupe == dupes(kind, u.id, data)
            Fail(result, effects) ==
                /\ last' = Res("submit", kind, 0, tg, result, effects, req)
                /\ UNCHANGED reqs
        IN
        /\ RaceTock
        /\ reqs[p].pc = "idle"
        /\ store' = lim.store
        /\ UNCHANGED <<users, car_ads, plate_ads, ad_photos, fsm, channel, now, ad_views>>
        /\ IF lim.denied THEN Fail("RateLimited", <<lim.message>>)
           ELSE IF user_check # 0 /\ "is_banned" \notin UserAttrs
           THEN Fail("ServerError", <<"AttributeError">>)
           ELSE IF user_check # 0 /\ users[user_check].is_banned
           THEN Fail("Forbidden", <<>>)
           ELSE IF errors # <<>> THEN Fail("ValidationErrors", errors)
           ELSE IF Cardinality(dupe) > 1 THEN Fail("ServerError", <<"MultipleResultsFound">>)
           ELSE IF dupe # {} /\ ~force THEN Fail("DuplicateConflict", <<>>)
           ELSE /\ reqs' = [reqs EXCEPT ![p] = [pc |-> "passed", op |-> "submit",
                                                 ad_type |-> kind, ad_id |-> 0,
                                                 caller |-> tg, seen |-> req]]
                /\ last' = Res("submit", kind, 0, tg, "Passed", <<>>, req)
        /\ Observe /\ UNCHANGED <<inflight, calls>>

\* create_car_ad / create_plate_ad, commit, session of the collector (api.py 1341-1452)
SubmitCreate ==
    \E p \in Requests, msgOk \in BOOLEAN :
        LET r == reqs[p]
            data == r.seen.data
            u == get_or_create_user(users, r.caller, NULL, NULL)
            ad_id == Len(Table(r.ad_type)) + 1
            row == IF r.ad_type = "car" THEN submit_create_car_ad(u.id, data)
                                        ELSE submit_create_plate_ad(u.id, data)
        IN
        /\ RaceTock
        /\ r.pc = "passed"
        /\ reqs' = [reqs EXCEPT ![p] = IdleRequest]
        /\ UNCHANGED <<ad_photos, store, channel, now, ad_views>>
        /\ IF ~CreateCallBinds(r.ad_type)
           THEN /\ last' = Res("submit", r.ad_type, 0, r.caller, "ServerError",
                               <<"TypeError">>, r.seen)
                /\ users' = NoCommit(users, r.caller)
                /\ UNCHANGED <<car_ads, plate_ads, fsm>>
           ELSE /\ AdCount < MaxAds
                /\ users' = u.users
                /\ car_ads' = IF r.ad_type = "car" THEN Append(car_ads, row) ELSE car_ads
                /\ plate_ads' = IF r.ad_type = "plate" THEN Append(plate_ads, row) ELSE plate_ads
                /\ fsm' = IF msgOk
                          THEN [fsm EXCEPT ![r.caller] = NewSession(ad_id, Get(data, "type").s)]
                          ELSE fsm
                /\ last' = Res("submit", r.ad_type, ad_id, r.caller,
                               IF msgOk THEN "OK" ELSE "ServerError",
                               <<"commit", Notify(msgOk)>>, r.seen)
        /\ Observe /\ UNCHANGED <<inflight, calls>>

----------------------------------------------------------------------------
(* _edit_ad as two steps of a request: the load of the ad with the checks   *)
(* made on the loaded values, and the commit.  The owner query and the      *)
(* commit are awaits at which other requests run.                           *)

\* the UPDATE of the commit: the columns whose value the session changed are
\* written onto the row as it is in the table
write_changed(row, loaded, new) ==
    [f \in DOMAIN row |-> IF new[f] # loaded[f] THEN new[f] ELSE row[f]]

\* the bodies of the edits that overlap with other requests
RaceBodies == {PriceOnly, EmptyBody}

\* load of the ad, status check, owner check, validation (api.py 1026-1064)
EditLoad ==
    \E p \in Requests, ad_type \in Kinds, ad_id \in AdIds, user_id_tg \in TgIds, body \in RaceBodies :
        LET Answer(result, effects) ==
                /\ last' = Res("edit", ad_type, ad_id, user_id_tg, result, effects, body)
                /\ UNCHANGED reqs
        IN
        /\ RaceTock
        /\ reqs[p].pc = "idle"
        /\ UNCHANGED <<users, car_ads, plate_ads, ad_photos, fsm, store, channel, now, ad_views>>
        /\ IF ~Exists(ad_type, ad_id) THEN Answer("NotFound", <<>>)
           ELSE LET ad == Table(ad_type)[ad_id]
                    errors == validator_fn(ad_type, Merge(current_data(ad_type, ad), body))
                IN  IF ~EditableStatus(ad.status) THEN Answer("CannotEditTerminal", <<>>)
                    ELSE IF ~IsOwner(ad, user_id_tg) THEN Answer("Forbidden", <<>>)
                    ELSE IF errors # <<>> THEN Answer("ValidationErrors", errors)
                    ELSE /\ reqs' = [reqs EXCEPT ![p] =
                                        [pc |-> "editing", op |-> "edit", ad_type |-> ad_type,
                                         ad_id |-> ad_id, caller |-> user_id_tg,
                                         seen |-> [ad |-> ad, body |-> body]]]
                         /\ last' = Res("edit", ad_type, ad_id, user_id_tg, "Loaded", <<>>, body)
        /\ Observe /\ UNCHANGED <<inflight, calls>>

\* the setattr loop, the reset of an approved status, the commit (api.py 1066-1087)
EditCommit ==
    \E p \in Requests :
        LET r == reqs[p]
            loaded == r.seen.ad
            body == r.seen.body
            changed == apply_updates(r.ad_type, loaded, body)
            updated == (DOMAIN body) \cap AllowedFields(r.ad_type) # {}
            new == IF updated /\ loaded.status = "approved"
                   THEN [changed EXCEPT !.status = "pending"] ELSE changed
            row == Table(r.ad_type)[r.ad_id]
        IN
        /\ RaceTock
        /\ r.pc = "editing"
        /\ reqs' = [reqs EXCEPT ![p] = IdleRequest]
        /\ UNCHANGED <<users, ad_photos, fsm, store, channel, now, ad_views>>
        /\ IF ViolatesNotNull(r.ad_type, changed)
           THEN /\ last' = Res("edit", r.ad_type, r.ad_id, r.caller, "ServerError", <<>>, body)
                /\ UNCHANGED <<car_ads, plate_ads>>
           ELSE IF ISOLATION_LEVEL # "READ COMMITTED" /\ new # loaded /\ row # loaded
           THEN /\ last' = Res("edit", r.ad_type, r.ad_id, r.caller, "ServerError",
                               <<"SerializationFailure">>, body)
                /\ UNCHANGED <<car_ads, plate_ads>>
           ELSE /\ WriteRow(r.ad_type, r.ad_id, write_changed(row, loaded, new))
                /\ last' = Res("edit", r.ad_type, r.ad_id, r.caller, "OK", <<"commit">>, body)
        /\ Observe /\ UNCHANGED <<inflight, calls>>

InitTables ==
    /\ users = <<>>
    /\ car_ads = <<>>
    /\ plate_ads = <<>>
    /\ ad_photos = <<>>
    /\ fsm = [tg \in TgIds |-> IdleSession]
    /\ store = [keys |-> [tg \in TgIds |-> <<>>], last_purge |-> 0]
    /\ channel = <<>>
    /\ now = 0
    /\ steps = 0
    /\ was_terminal = {}
    /\ granted = [tg \in TgIds |-> <<>>]
    /\ inflight = <<>>
    /\ calls = [p \in Procs |-> IdleCall]
    /\ ad_views = <<>>
    /\ reqs = [p \in Requests |-> IdleRequest]

Init ==
    /\ InitTables
    /\ last = Res("init", "", 0, 0, "", <<>>, EmptyBody)

Next ==
    \/ HandleWebAppData
    \/ AdminApprove
    \/ AdminReject
    \/ HandleModeration
    \/ MarkAsSold
    \/ DeleteAd
    \/ EditAd

Spec == Init /\ [][Next]_vars

\* the two submission entry points, the clock and the moderator's reject
NextSubmit ==
    \/ HandleSubmit
    \/ HandleWebAppData
    \/ AdminReject
    \/ Tick

SpecSubmit == Init /\ [][NextSubmit]_vars

\* the operations with side effects: submission and moderation
NextEffects ==
    \/ HandleSubmit
    \/ HandleWebAppData
    \/ AdminApprove
    \/ AdminReject
    \/ HandleModeration

SpecEffects == Init /\ [][NextEffects]_vars

\* the rate limiter and the clock
NextLimiter ==
    \/ LimiterCheck
    \/ Elapse

SpecLimiter == Init /\ [][NextLimiter]_vars

\* the clock advances by the longest window of the rules
HourPasses ==
    /\ steps < MaxChecks
    /\ steps' = steps + 1
    /\ now' = now + max_window
    /\ last' = Res("tick", "", 0, 0, "", <<>>, EmptyBody)
    /\ UNCHANGED <<users, car_ads, plate_ads, ad_photos, fsm, store, channel>>
    /\ Track

\* the rate limiter over a time long enough for keys to become stale
NextPurge ==
    \/ LimiterCheck
    \/ Elapse
    \/ HourPasses

SpecPurge == Init /\ [][NextPurge]_vars

\* the two submission entry points and the end of a collector session
NextSessions ==
    \/ HandleSubmit
    \/ HandleWebAppData
    \/ PressButton
    \/ FinishPhotos
    \/ CollectPhoto

SpecSessions == Init /\ [][NextSessions]_vars

\* the bot's submission and the collector with concurrent photo messages
NextConcurrent ==
    \/ HandleWebAppData
    \/ ReceivePhoto
    \/ CommitPhoto
    \/ FinishPhotos

SpecConcurrent == Init /\ [][NextConcurrent]_vars

\* a submission, its photos and its approval, in runs of at
\* most MaxLateSteps requests
NextScenario ==
    /\ steps < MaxLateSteps
    /\ \/ HandleSubmit
       \/ HandleWebAppData
       \/ CollectPhoto
       \/ PressButton
       \/ LateApprove

SpecScenario == Init /\ [][NextScenario]_vars

\* concurrent get_or_create_user calls
NextUsers ==
    \/ FindUser
    \/ FlushUser
    \/ RecoverUser
    \/ CommitUser
    \/ AbortUser

SpecUsers == Init /\ [][NextUsers]_vars

\* every entry point that creates ads, and the clock
NextEntry ==
    \/ HandleSubmit
    \/ HandleWebAppData
    \/ AdminGenerate
    \/ Tick

SpecEntry == Init /\ [][NextEntry]_vars

\* the bot's submission and the photo collector
\* the window of the duplicate check passes
WeekPasses ==
    /\ Tock
    /\ now <= DUPLICATE_CHECK_SECONDS
    /\ now' = now + DUPLICATE_CHECK_SECONDS + 1
    /\ last' = Res("tick", "", 0, 0, "", <<>>, EmptyBody)
    /\ UNCHANGED <<users, car_ads, plate_ads, ad_photos, fsm, store, channel>>
    /\ Track

\* submissions, the ways an ad stops counting as a duplicate, and the clock
NextDedup ==
    \/ HandleSubmit
    \/ HandleWebAppData
    \/ AdminReject
    \/ DeleteAd
    \/ PressButton
    \/ WeekPasses

SpecDedup == Init /\ [][NextDedup]_vars

\* owner edits that overlap with the moderation of the ad
NextEdits ==
    \/ HandleWebAppData
    \/ AdminApprove
    \/ AdminReject
    \/ EditLoad
    \/ EditCommit

SpecEdits == Init /\ [][NextEdits]_vars

\* submissions that overlap
NextRace ==
    \/ SubmitCheck
    \/ SubmitCreate
    \/ HandleWebAppData

SpecRace == Init /\ [][NextRace]_vars

\* ads that get approved and are then viewed
NextViews ==
    \/ HandleWebAppData
    \/ AdminApprove
    \/ ViewAd
    \/ CommitView

SpecViews == Init /\ [][NextViews]_vars

\* the validator applied to one payload
Validate ==
    /\ last.op = "input"
    /\ LET errors == validator_fn(last.ad_type, last.body)
       IN  last' = Res("validate", last.ad_type, 0, 0,
                       IF errors = <<>> THEN "OK" ELSE "ValidationErrors", errors, last.body)
    /\ UNCHANGED <<users, car_ads, plate_ads, ad_photos, fsm, store, channel, now, steps>>
    /\ Track

InitValidate ==
    /\ InitTables
    /\ \E k \in Kinds : \E data \in ValidatorInputs(k) :
            last = Res("input", k, 0, 0, "", <<>>, data)

SpecValidate == InitValidate /\ [][Validate]_vars

NextCollect ==
    \/ HandleWebAppData
    \/ PressButton
    \/ CollectPhoto
    \/ FinishPhotos
    \/ UnknownMessage
    \/ LongWait

SpecCollect == Init /\ [][NextCollect]_vars

\* the bot's submission and the handlers that store photos or end a session
NextPhotos ==
    \/ HandleWebAppData
    \/ PressButton
    \/ CollectPhoto
    \/ FinishPhotos
    \/ LongWait

SpecPhotos == Init /\ [][NextPhotos]_vars

\* a photo message of user tg handled by the collector
PhotoOf(tg) == CollectPhoto /\ last'.caller = tg

\* one user at a time in the collector: a submission is made when no session
\* is open, and the user of the open session sends photos or ends it
NextProgress ==
    \/ (\A tg \in TgIds : ~InPhotoCollect(tg)) /\ HandleWebAppData
    \/ CollectPhoto
    \/ PressButton
    \/ FinishPhotos

\* a user with an open session keeps sending photos: the bot handles every
\* photo message it is sent
SpecProgress == Init /\ [][NextProgress]_vars /\ \A tg \in TgIds : WF_vars(PhotoOf(tg))

----------------------------------------------------------------------------
(* Properties of the lifecycle, the moderation and the owner's edit *)

ApproveOps == {"approve", "bot_approve"}

RejectOps == {"reject", "bot_reject"}

SubmitOps == {"submit", "web_app_data"}

\* the edges of the lifecycle state machine
EDGES == {<<"pending", "approved">>, <<"pending", "rejected">>, <<"approved", "pending">>,
          <<"approved", "rejected">>, <<"approved", "sold">>}

\* C1: every change of an ad's status, for car and plate ads alike, follows one
\* of the edges pending->approved, pending->rejected, approved->pending,
\* approved->rejected, approved->sold; no other change of status ever happens.
C1_OnlyDefinedEdges ==
    [][\A k \in Kinds : \A i \in DOMAIN Table(k) :
          \/ Table(k)'[i].status = Table(k)[i].status
          \/ <<Table(k)[i].status, Table(k)'[i].status>> \in EDGES]_vars

\* C2: an approval of an existing ad that is not pending leaves the status as it
\* was, sends no notification, publishes nothing and answers not-found; an
\* approval of a pending ad makes it approved.
C2_ApproveOnlyFromPending ==
    [][\A k \in Kinds, i \in AdIds :
          (last'.op \in ApproveOps /\ last'.ad_type = k /\ last'.ad_id = i /\ last'.pre # "") =>
              IF last'.pre = "pending"
              THEN Table(k)'[i].status = "approved"
              ELSE /\ last'.result = "NotFound"
                   /\ last'.effects = <<>>
                   /\ UNCHANGED <<car_ads, plate_ads, channel>>]_vars

\* C3: when a pending ad is approved and approved again, the second approval
\* answers not-found, changes nothing, notifies nobody and publishes nothing, so
\* that one notification and one publication happen in all.
C3_SecondApproveIsNoop ==
    [][(/\ last.op \in ApproveOps /\ last.pre = "pending" /\ last.result = "OK"
        /\ last'.op \in ApproveOps
        /\ last'.ad_type = last.ad_type /\ last'.ad_id = last.ad_id) =>
            /\ last'.result = "NotFound"
            /\ last'.effects = <<>>
            /\ UNCHANGED <<car_ads, plate_ads, channel>>]_vars

\* C4: a rejection of an existing ad that is not pending leaves its status and
\* its rejection reason as they were and answers not-found; a rejection of a
\* pending ad makes it rejected with the reason given, or the default reason
\* when none is given.
C4_RejectOnlyFromPending ==
    [][\A k \in Kinds, i \in AdIds :
          (last'.op \in RejectOps /\ last'.ad_type = k /\ last'.ad_id = i /\ last'.pre # "") =>
              LET given == IF "reason" \in DOMAIN last'.body THEN last'.body.reason.s ELSE NULL
                  reason == IF given \in {NULL, ""} THEN DEFAULT_REJECT_REASON ELSE given
              IN  IF last'.pre = "pending"
                  THEN /\ Table(k)'[i].status = "rejected"
                       /\ Table(k)'[i].rejection_reason = reason
                  ELSE /\ last'.result = "NotFound"
                       /\ UNCHANGED <<car_ads, plate_ads>>]_vars

\* C5: once an ad has been rejected or sold, every later edit by its owner
\* fails with CannotEditTerminal and leaves every stored field of the ad, its
\* status included, as it was.
C5_TerminalNeverEditable ==
    [][\A k \in Kinds, i \in AdIds :
          (/\ <<k, i>> \in was_terminal
           /\ last'.op = "edit" /\ last'.ad_type = k /\ last'.ad_id = i
           /\ IsOwner(Table(k)[i], last'.caller)) =>
              /\ last'.result = "CannotEditTerminal"
              /\ Table(k)'[i] = Table(k)[i]]_vars

----------------------------------------------------------------------------
(* Properties of the submission *)

\* the payload, the photo references and the force flag of a submission
SubData(l) == IF l.op = "submit" THEN l.body.data ELSE l.body

SubPhotos(l) == IF l.op = "submit" THEN l.body.photo_ids ELSE <<>>

SubForce(l) == IF l.op = "submit" THEN l.body.force ELSE FALSE

\* the submission passes the validator of its kind
SubValid(k, data) == IF k = "car" THEN validate_car_ad(data) = <<>>
                                  ELSE validate_plate_ad(data) = <<>>

\* the submitter is under the limits of the rate limiter
SubAllowed(tg) == ~check(store, tg, now).denied

\* the submitter has a duplicate of the submission
SubDuplicate(k, tg, data) == dupes(k, find_user(users, tg), data) # {}

\* the rows table k gains when ad is added to it
Gains(k, ad) ==
    /\ car_ads' = IF k = "car" THEN Append(car_ads, ad) ELSE car_ads
    /\ plate_ads' = IF k = "plate" THEN Append(plate_ads, ad) ELSE plate_ads

\* C6: a valid submission that is neither throttled nor a duplicate and carries
\* references of uploaded photos creates an approved ad whose photo rows are
\* the given references, in the given order, at the positions 0..n-1.
C6_PhotosAutoApprove ==
    [][\A k \in Kinds :
          (/\ last'.op = "submit" /\ last'.ad_type = k
           /\ SubPhotos(last') # <<>>
           /\ \A j \in DOMAIN SubPhotos(last') : ValidPhoto(SubPhotos(last')[j])
           /\ SubValid(k, SubData(last'))
           /\ SubAllowed(last'.caller)
           /\ ~SubDuplicate(k, last'.caller, SubData(last'))) =>
              LET ad_id == Len(Table(k)) + 1
                  refs == SubPhotos(last')
              IN  /\ last'.result = "OK"
                  /\ Len(Table(k)') = ad_id /\ Table(k)'[ad_id].status = "approved"
                  /\ Gains(k, Table(k)'[ad_id])
                  /\ ad_photos' = ad_photos \o
                        [j \in 1..Len(refs) |-> AdPhoto(k, ad_id, refs[j], j - 1)]]_vars

\* C7: a valid submission without photos commits a pending ad without photo
\* rows, publishes nothing, and puts the submitter's collector session into
\* waiting_photos for that ad with the photo count 0.
C7_NoPhotosPending ==
    [][\A k \in Kinds :
          (/\ last'.op \in SubmitOps /\ last'.ad_type = k
           /\ SubPhotos(last') = <<>>
           /\ SubValid(k, SubData(last'))
           /\ SubAllowed(last'.caller)
           /\ ~SubDuplicate(k, last'.caller, SubData(last'))) =>
              LET ad_id == Len(Table(k)) + 1 IN
              /\ last'.result = "OK"
              /\ Len(Table(k)') = ad_id /\ Table(k)'[ad_id].status = "pending"
              /\ Gains(k, Table(k)'[ad_id])
              /\ UNCHANGED <<ad_photos, channel>>
              /\ fsm'[last'.caller] = NewSession(ad_id, Get(SubData(last'), "type").s)]_vars

\* C9: a valid car submission of a user who has an ad of the same brand, model
\* and year that is not rejected and younger than seven days answers
\* DuplicateConflict and creates nothing, unless it is forced; the forced
\* submission creates the second ad.
C9_DuplicateDetected ==
    [][(/\ last'.op \in SubmitOps /\ last'.ad_type = "car"
        /\ SubValid("car", SubData(last'))
        /\ SubAllowed(last'.caller)
        /\ SubDuplicate("car", last'.caller, SubData(last'))) =>
            IF SubForce(last')
            THEN last'.result = "OK" /\ Len(car_ads') = Len(car_ads) + 1
            ELSE last'.result = "DuplicateConflict" /\ UNCHANGED db]_vars

----------------------------------------------------------------------------
(* Properties of the owner's edit and of the channel *)

\* C8: an edit by the owner of an approved car ad that carries only a new valid
\* price succeeds, stores the new price, makes the ad pending and leaves every
\* other field as it was, whatever optional fields the ad was created with.
C8_PriceEditRoundTrip ==
    [][\A i \in AdIds :
          (/\ last'.op = "edit" /\ last'.ad_type = "car" /\ last'.ad_id = i
           /\ last'.pre = "approved"
           /\ last'.body = PriceOnly
           /\ IsOwner(car_ads[i], last'.caller)) =>
              /\ last'.result = "OK"
              /\ car_ads'[i] = [car_ads[i] EXCEPT !.price = PriceOnly.price.n,
                                                  !.status = "pending"]]_vars

\* the live posts of an ad in the channel
LivePosts(k, i) ==
    {m \in DOMAIN channel :
        channel[m].live /\ channel[m].ad_type = k /\ channel[m].ad_id = i}

\* C10: the channel never holds more than one live post of an ad, car or
\* plate, whichever way the ad was approved: a republication deletes the post
\* whose id was stored before it sends the new one.
C10_OneLivePostPerAd ==
    \A k \in Kinds, i \in AdIds : Cardinality(LivePosts(k, i)) <= 1

----------------------------------------------------------------------------
(* Properties of the side effects *)

\* the attempts to notify the owner, to publish and to delete a post
SideEffects == {"notify", "notify_failed", "send", "send_failed", "delete", "delete_failed"}

\* the attempts that failed
FailedEffects == {"notify_failed", "send_failed", "delete_failed"}

\* effect number i of the request comes after its commit
AfterCommit(effects, i) == \E j \in 1..(i - 1) : effects[j] = "commit"

\* C11: in every approval (HTTP, bot callback, submission with photos) and in
\* every rejection the write of the new status is committed before the first
\* attempt to notify the owner or to publish.
C11_CommitBeforeSideEffects ==
    [][(last'.op \in ApproveOps \cup RejectOps \cup {"submit"} /\ last'.result = "OK") =>
          \A i \in DOMAIN last'.effects :
              last'.effects[i] \in SideEffects => AfterCommit(last'.effects, i)]_vars

----------------------------------------------------------------------------
(* Properties of the rate limiter *)

\* the number of the times of ts that lie in the window of w seconds ending at t
InWindow(ts, t, w) == Cardinality({i \in DOMAIN ts : t - w < ts[i] /\ ts[i] <= t})

\* C13: under the rule of 3 requests per 300 seconds, a check for a key that
\* has three allowed calls inside the last 300 seconds is denied with the
\* message of that rule; once the oldest of them is more than 300 seconds
\* back, so that fewer than three are left in the window, the check is allowed.
C13_ThreePerWindow ==
    [][last'.op = "check" =>
          IF InWindow(granted[last'.caller], now, 300) >= 3
          THEN last'.result = "Denied" /\ last'.effects = <<RULE_SHORT.message>>
          ELSE last'.result = "Allowed"]_vars

\* a fourth call is allowed once the window of the first three has passed
C13_Witness ==
    \E k \in TgIds :
        /\ last.op = "check" /\ last.caller = k /\ last.result = "Allowed"
        /\ Len(granted[k]) = 4
        /\ granted[k][3] - granted[k][1] < 300
        /\ granted[k][4] - granted[k][1] > 300

\* C14: a denied check records nothing: the timestamps that count against the
\* key, for every rule, are the same after the call as before it, and no
\* allowed call is added.
C14_DeniedRecordsNothing ==
    [][(last'.op = "check" /\ last'.result = "Denied") =>
          /\ \A r \in DOMAIN submit_limits :
                SelectSeq(store'.keys[last'.caller],
                          LAMBDA ts : ts > now - submit_limits[r].window_seconds)
                  = SelectSeq(store.keys[last'.caller],
                              LAMBDA ts : ts > now - submit_limits[r].window_seconds)
          /\ UNCHANGED granted]_vars

\* a check that was denied while three calls were in the window
C14_Witness ==
    /\ last.op = "check" /\ last.result = "Denied"
    /\ InWindow(store.keys[last.caller], now, 300) = 3

\* C15: whatever the order in which the calls of check arrive, for every key
\* and every rule the allowed calls inside any one window of the rule are never
\* more than max_requests; two calls at the same instant never both get the
\* last free slot.
C15_NeverOverLimit ==
    \A k \in TgIds : \A r \in DOMAIN submit_limits : \A i \in DOMAIN granted[k] :
        InWindow(granted[k], granted[k][i], submit_limits[r].window_seconds)
            <= submit_limits[r].max_requests

\* two calls of one key at the same instant, with one slot left: after two
\* allowed calls the third call gets the slot and the fourth is denied
C15_Witness ==
    \E k \in TgIds :
        /\ last.op = "check" /\ last.caller = k /\ last.result = "Denied"
        /\ Len(granted[k]) = 3
        /\ granted[k][3] = now
        /\ granted[k][2] < now

----------------------------------------------------------------------------
(* The photo collector                                                     *)

\* the requests that end a collector session: the skip and done buttons, a
\* typed done word, and the photo that reaches the maximum
Finishes(r) == r.result = "Finished" /\ r.op \in {"skip", "done", "finish", "photo"}

CollectOps == {"skip", "done", "finish", "photo", "unknown"}

\* the time the session of tg was entered: its ad was created by the same
\* submission
SessionStart(tg) == Table(photo_ad_type(fsm[tg].ad_type))[fsm[tg].ad_id].created_at

\* C17: when more than one hour has passed since a session was entered by a
\* submission, the next interaction in waiting_photos (a photo, the done or
\* skip button, a typed done word, any other message) clears the session and
\* stores no photo.
C17_ExpiredSessionIsCleared ==
    [][\A tg \in TgIds :
          (/\ InPhotoCollect(tg)
           /\ now - SessionStart(tg) > 3600
           /\ last'.op \in CollectOps
           /\ last'.caller = tg)
          => /\ fsm'[tg].state = "idle"
             /\ ad_photos' = ad_photos]_vars

\* the rows of one ad
RowsOf(photos, kind, id) ==
    {j \in DOMAIN photos : photos[j].ad_type = kind /\ photos[j].ad_id = id}

\* C18: in waiting_photos with a count c below the maximum of the kind (10
\* for a car ad, 5 for a plate ad) a photo persists exactly one row, for the
\* session's ad and at position c, and the count becomes c + 1; the session
\* ends exactly when c + 1 is the maximum; an ad never has more rows than the
\* maximum.
C18_OneRowPerPhoto ==
    [][\A tg \in TgIds :
          LET s == fsm[tg]
              kind == IF s.ad_type = "car_ad" THEN "car" ELSE "plate"
              limit == IF s.ad_type = "car_ad" THEN 10 ELSE 5
          IN
          (InPhotoCollect(tg) /\ last'.op = "photo" /\ last'.caller = tg)
          => /\ s.photo_count < limit =>
                  /\ Len(ad_photos') = Len(ad_photos) + 1
                  /\ SubSeq(ad_photos', 1, Len(ad_photos)) = ad_photos
                  /\ ad_photos'[Len(ad_photos')].ad_type = kind
                  /\ ad_photos'[Len(ad_photos')].ad_id = s.ad_id
                  /\ ad_photos'[Len(ad_photos')].position = s.photo_count
                  /\ IF s.photo_count + 1 = limit
                     THEN fsm'[tg].state = "idle"
                     ELSE fsm'[tg] = [s EXCEPT !.photo_count = s.photo_count + 1]
             /\ Cardinality(RowsOf(ad_photos', kind, s.ad_id)) <= limit]_vars

\* the tenth photo of a car ad is stored at position 9 and ends the session
C18_Witness ==
    /\ last.op = "photo" /\ last.result = "Finished" /\ last.ad_type = "car"
    /\ Cardinality(RowsOf(ad_photos, "car", last.ad_id)) = 10
    /\ ad_photos[Len(ad_photos)].position = 9
    /\ fsm[last.caller].state = "idle"

\* the ads of a kind that a Telegram user owns
AdsOf(kind, tg) == {i \in DOMAIN Table(kind) : Table(kind)[i].user_id = find_user(users, tg)}

----------------------------------------------------------------------------
(* Properties of the submission pipeline                                   *)

\* the answers of a submission turned away by the limiter, the validator or
\* the duplicate check
Rejections == {"RateLimited", "ValidationErrors", "DuplicateConflict"}

\* C21: a submission turned away at the rate limit, at the validation or at
\* the duplicate check leaves the persisted state as it was: no ad row, no
\* photo row, no new or changed user row, and the collector session of the
\* user is what it was.
C21_RejectedSubmitChangesNothing ==
    [][(last'.op = "submit" /\ last'.result \in Rejections) =>
          /\ users' = users
          /\ car_ads' = car_ads
          /\ plate_ads' = plate_ads
          /\ ad_photos' = ad_photos
          /\ fsm'[last'.caller] = fsm[last'.caller]]_vars

\* a user without a row has sent a submission without a price and holds no
\* row afterwards
C21_Witness ==
    /\ last.op = "submit" /\ last.result = "ValidationErrors"
    /\ find_user(users, last.caller) = 0
    /\ car_ads = <<>> /\ plate_ads = <<>> /\ ad_photos = <<>>

\* C22: every ad row that comes into being was created by a submission that
\* went through the rate limiter (which recorded it), passed the validator of
\* its kind and passed the duplicate check (no duplicate, or force); no entry
\* point creates an ad past any of the three.
C22_EveryAdPassedTheChecks ==
    [][\A k \in Kinds :
          Len(Table(k)') > Len(Table(k)) =>
              /\ last'.op \in SubmitOps
              /\ last'.ad_type = k
              /\ ~check(store, last'.caller, now).denied
              /\ granted'[last'.caller] = Append(granted[last'.caller], now)
              /\ SubValid(k, SubData(last'))
              /\ (SubForce(last') \/ ~SubDuplicate(k, last'.caller, SubData(last')))]_vars

\* C23: under every interleaving of concurrent get_or_create_user calls at
\* most one user row has a given telegram_id, no call raises, and a call that
\* has found or re-read a row, or whose row is committed, holds the one row
\* of its telegram_id.
C23_OneUserPerTelegramId ==
    /\ \A i, j \in DOMAIN users : users[i].telegram_id = users[j].telegram_id => i = j
    /\ \A p \in Procs :
          /\ calls[p].pc # "raised"
          /\ calls[p].pc = "returned" =>
                /\ calls[p].ret \in DOMAIN users
                /\ users[calls[p].ret].telegram_id = calls[p].tg

\* two calls for one telegram_id both found no row; one has committed its
\* row and the other, refused by the unique index, has re-read that row
C23_Witness ==
    \E p, q \in Procs :
        /\ p # q
        /\ calls[p].tg = calls[q].tg
        /\ calls[p].pc = "returned" /\ calls[p].via = "created"
        /\ calls[q].pc = "returned" /\ calls[q].via = "reread"
        /\ calls[q].ret = calls[p].ret

----------------------------------------------------------------------------
(* Properties of the owner's operations                                    *)

OwnerOps == {"edit", "softDelete", "markSold"}

\* the caller of the request is the owner of row i of table k
CalledByOwner(k, i, l) ==
    /\ Table(k)[i].user_id \in DOMAIN users
    /\ users[Table(k)[i].user_id].telegram_id = l.caller

----------------------------------------------------------------------------
(* An end-to-end scenario                                                  *)

\* the positions of the photo rows of an ad
Positions(photos, kind, id) == {photos[j].position : j \in RowsOf(photos, kind, id)}

\* the entries of effects that are attempts to send a post
SendAttempts(effects) == {j \in DOMAIN effects : effects[j] \in {"send", "send_failed"}}

----------------------------------------------------------------------------
(* Stored records against the validator                                    *)

\* C26: after every submission and every edit that answers OK, the record it
\* stored satisfies the validator: validating the stored values again gives an
\* empty list of errors.
C26_StoredRecordIsValid ==
    [][\A k \in Kinds, i \in AdIds :
          (/\ last'.op \in SubmitOps \cup {"edit"} /\ last'.result = "OK"
           /\ last'.ad_type = k /\ last'.ad_id = i) =>
              /\ i \in DOMAIN Table(k)'
              /\ validator_fn(k, current_data(k, Table(k)'[i])) = <<>>]_vars

\* C26 for edits alone: an edit that answers OK on a record that satisfied
\* the validator leaves a record that satisfies it.
C26_EditKeepsRecordValid ==
    [][\A k \in Kinds, i \in AdIds :
          (/\ last'.op = "edit" /\ last'.result = "OK"
           /\ last'.ad_type = k /\ last'.ad_id = i
           /\ validator_fn(k, current_data(k, Table(k)[i])) = <<>>) =>
              validator_fn(k, current_data(k, Table(k)'[i])) = <<>>]_vars

----------------------------------------------------------------------------
(* The validator against the rules of the fields                           *)

SENTINEL == "Drugaya"

Fields(k) ==
    IF k = "car" THEN {"brand", "model", "year", "price", "mileage", "engine_volume", "fuel_type", "transmission", "city", "contact_phone", "description"}
    ELSE {"plate_number", "price", "city", "contact_phone", "description"}

\* no value, or a string of blanks
Missing(v) == v.t = "null" \/ (v.t = "str" /\ Strip(v.s) = "")

\* a value has been supplied
Given(v) == v.t # "null" /\ ~(v.t = "str" /\ v.s = "")

\* the length of the text of a value is within lo..hi
LengthIn(v, lo, hi) == StrLen(Strip(Str(v))) >= lo /\ StrLen(Strip(Str(v))) <= hi

\* a number within lo..hi
NumberIn(v, lo, hi) == v.t \in {"int", "bool"} /\ v.n >= lo /\ v.n <= hi

\* the rule of field f of an ad of kind k is violated by payload d
RuleViolated(k, f, d) ==
    LET v == Get(d, f)
        brand == Strip(Str(Get(d, "brand")))
    IN  CASE f = "brand" ->
                 \/ Missing(v) \/ ~LengthIn(v, 1, 100)
                 \/ (brand # SENTINEL /\ brand \notin DOMAIN BRANDS)
          [] f = "model" ->
                 \/ Missing(v) \/ ~LengthIn(v, 1, 100)
                 \/ /\ brand \in DOMAIN BRANDS
                    /\ Strip(Str(v)) # SENTINEL
                    /\ Strip(Str(v)) \notin BRANDS[brand]
          [] f = "year" -> ~NumberIn(v, 1960, MaxYear)
          [] f = "price" -> ~NumberIn(v, 1, IF k = "car" THEN 100000000 ELSE 50000000)
          [] f = "mileage" -> Given(v) /\ ~NumberIn(v, 0, 10000000)
          [] f = "engine_volume" -> Given(v) /\ ~NumberIn(v, 1, 200)
          [] f = "fuel_type" -> Given(v) /\ Str(v) \notin FUEL_TYPE_MAP
          [] f = "transmission" -> Given(v) /\ Str(v) \notin TRANSMISSION_MAP
          [] f = "plate_number" -> Missing(v) \/ ~LengthIn(v, 1, 20)
          [] f = "city" -> Missing(v) \/ ~LengthIn(v, 1, 100)
          [] f = "contact_phone" ->
                 Missing(v) \/ ~LengthIn(v, 5, 20) \/ ~HasDigit(Strip(Str(v)))
          [] f = "description" -> ~Missing(v) /\ ~LengthIn(v, 0, 2000)

RuleNames == {"required", "length", "catalog", "number", "min", "max", "enum", "digits"}

\* the errors of a list that are about field f
ErrorsFor(f, errors) == {i \in DOMAIN errors : errors[i] \in {f \o ":" \o r : r \in RuleNames}}

\* C27: the list the validator returns for a payload has at least one error
\* for every field whose rule the payload violates, and it is empty exactly
\* when the payload violates the rule of no field.
C27_CompleteErrorList ==
    last.op = "validate" =>
        /\ \A f \in Fields(last.ad_type) :
               RuleViolated(last.ad_type, f, last.body) => ErrorsFor(f, last.effects) # {}
        /\ (last.effects = <<>>) <=>
               (\A f \in Fields(last.ad_type) : ~RuleViolated(last.ad_type, f, last.body))

\* C27 for the payloads whose engine_volume is not the text nan
C27_CompleteErrorListOfNumbers ==
    (last.op = "validate" /\ ~IsNaN(Get(last.body, "engine_volume"))) =>
        /\ \A f \in Fields(last.ad_type) :
               RuleViolated(last.ad_type, f, last.body) => ErrorsFor(f, last.effects) # {}
        /\ (last.effects = <<>>) <=>
               (\A f \in Fields(last.ad_type) : ~RuleViolated(last.ad_type, f, last.body))

\* a payload that violates the rules of three fields has been validated
C27_Witness ==
    /\ last.op = "validate"
    /\ Cardinality({f \in Fields(last.ad_type) : RuleViolated(last.ad_type, f, last.body)}) = 3
    /\ Len(last.effects) >= 3

----------------------------------------------------------------------------
(* The duplicate check                                                     *)

\* the ads of user tg of kind k with the key fields of the payload
Matching(k, tg, data) ==
    {i \in AdsOf(k, tg) :
        IF k = "car"
        THEN /\ car_ads[i].brand = StrField(data, "brand")
             /\ car_ads[i].model = StrField(data, "model")
             /\ car_ads[i].year = safe_int(Get(data, "year"))
        ELSE plate_ads[i].plate_number = StrField(data, "plate_number")}

\* the matching ads that count: not rejected and created within the last 7 days
Counted(k, tg, data) ==
    {i \in Matching(k, tg, data) :
        /\ Table(k)[i].status # "rejected"
        /\ now - Table(k)[i].created_at < DUPLICATE_CHECK_SECONDS}

\* C28: a valid, non-throttled submission without force by a user whose
\* matching ads have all been rejected by an admin, deleted by their owner or
\* created more than 7 days ago is accepted: it answers OK and creates an ad.
C28_StaleDuplicateIsAccepted ==
    [][\A k \in Kinds :
          (/\ last'.op \in SubmitOps /\ last'.ad_type = k
           /\ SubValid(k, SubData(last'))
           /\ SubAllowed(last'.caller)
           /\ ~SubForce(last')
           /\ AdCount < MaxAds
           /\ Matching(k, last'.caller, SubData(last')) # {}
           /\ Counted(k, last'.caller, SubData(last')) = {}) =>
              /\ last'.result = "OK"
              /\ Len(Table(k)') = Len(Table(k)) + 1]_vars

\* C29: whatever the number of the submitter's matching ads that count, a
\* valid, non-throttled POST /api/submit never ends in a server error; with
\* force it answers OK and creates an ad, and without force it answers
\* DuplicateConflict when at least one matching ad counts.
C29_ForceAlwaysCreates ==
    [][\A k \in Kinds :
          (/\ last'.op = "submit" /\ last'.ad_type = k
           /\ SubValid(k, SubData(last'))
           /\ SubAllowed(last'.caller)) =>
              /\ last'.result # "ServerError"
              /\ (SubForce(last') /\ AdCount < MaxAds) =>
                     last'.result = "OK" /\ Len(Table(k)') = Len(Table(k)) + 1
              /\ (~SubForce(last') /\ Counted(k, last'.caller, SubData(last')) # {}) =>
                     last'.result = "DuplicateConflict"]_vars

\* C29 for a submitter who already has two matching ads that count
C29_TwoDuplicatesNoServerError ==
    [][\A k \in Kinds :
          (/\ last'.op = "submit" /\ last'.ad_type = k
           /\ SubValid(k, SubData(last'))
           /\ SubAllowed(last'.caller)
           /\ Cardinality(Counted(k, last'.caller, SubData(last'))) >= 2) =>
              last'.result # "ServerError"]_vars

----------------------------------------------------------------------------
(* The id of the published message                                         *)

\* the request has sent a post to the channel
Published(l) == \E j \in DOMAIN l.effects : l.effects[j] = "send"

\* C30: after every operation that has sent a post of an ad, car or plate, to
\* the channel, the ad stores the id of that post, which is what the next
\* publication of the ad reads as the id of the previous post.
C30_SentMessageIdIsStored ==
    [][\A k \in Kinds, i \in AdIds :
          (last'.ad_type = k /\ last'.ad_id = i /\ Published(last')) =>
              /\ i \in DOMAIN Table(k)'
              /\ Len(channel') = Len(channel) + 1
              /\ channel'[Len(channel')].ad_type = k /\ channel'[Len(channel')].ad_id = i
              /\ old_msg_id(Table(k)'[i]) = Len(channel')]_vars

\* C30 for the plate ads published by POST /api/admin/approve
C30_PlateApproveStoresId ==
    [][\A i \in AdIds :
          (/\ last'.op = "approve" /\ last'.ad_type = "plate" /\ last'.ad_id = i
           /\ Published(last')) =>
              /\ channel'[Len(channel')].ad_type = "plate" /\ channel'[Len(channel')].ad_id = i
              /\ old_msg_id(plate_ads'[i]) = Len(channel')]_vars

----------------------------------------------------------------------------
(* The publisher when the previous post cannot be deleted                  *)

\* the positions of effect e in a list of effects
At(effects, e) == {j \in DOMAIN effects : effects[j] = e}

\* C31: when publish_to_channel runs for an ad that stores the id of a
\* previous post and the deletion of that post fails, the request still
\* answers OK, the previous post stays in the channel, the new post is sent
\* after the failed deletion, and the id of the new post replaces the stored
\* one as soon as the channel has accepted it.
C31_FailedDeleteDoesNotBlock ==
    [][\A k \in Kinds, i \in AdIds :
          (/\ last'.ad_type = k /\ last'.ad_id = i
           /\ At(last'.effects, "delete_failed") # {}) =>
              /\ last'.result = "OK"
              /\ old_msg_id(Table(k)[i]) # 0
              /\ \A m \in DOMAIN channel : channel'[m] = channel[m]
              /\ \E d \in At(last'.effects, "delete_failed") :
                     \E j \in SendAttempts(last'.effects) : j > d
              /\ Published(last') =>
                     /\ Len(channel') = Len(channel) + 1
                     /\ channel'[Len(channel')] = Post(k, i, media_of(PhotosOf(k, i)))
                     /\ old_msg_id(Table(k)'[i]) = Len(channel')
                     /\ old_msg_id(Table(k)'[i]) # old_msg_id(Table(k)[i])]_vars

\* a republication whose deletion failed has sent a second post and stored its id
C31_Witness ==
    /\ last.op = "approve" /\ last.result = "OK"
    /\ At(last.effects, "delete_failed") # {} /\ Published(last)
    /\ last.ad_id \in DOMAIN Table(last.ad_type)
    /\ old_msg_id(Table(last.ad_type)[last.ad_id]) = Len(channel)
    /\ Cardinality(LivePosts(last.ad_type, last.ad_id)) = 2

----------------------------------------------------------------------------
(* Unique views                                                            *)

\* the view rows of ad i of kind k
ViewsOf(k, i) == {j \in DOMAIN ad_views : ad_views[j].ad_type = k /\ ad_views[j].ad_id = i}

\* C32: there is never more than one view row of a viewer for an ad, and the
\* view counter of every ad is the number of its view rows.
C32_CounterEqualsViewRows ==
    /\ \A j1, j2 \in DOMAIN ad_views : ad_views[j1] = ad_views[j2] => j1 = j2
    /\ \A k \in Kinds : \A i \in DOMAIN Table(k) :
           Table(k)[i].view_count = Cardinality(ViewsOf(k, i))

\* C32, the rows alone: never more than one view row of a viewer for an ad
C32_OneRowPerViewer ==
    \A j1, j2 \in DOMAIN ad_views : ad_views[j1] = ad_views[j2] => j1 = j2

----------------------------------------------------------------------------
(* Submissions that overlap                                                *)

\* two requests of one user with one payload, neither forced, have both
\* passed the duplicate query and neither has created its ad yet
BothPassed ==
    \E p, q \in Requests :
        /\ p # q /\ reqs[p].pc = "passed" /\ reqs[q].pc = "passed"
        /\ reqs[p].caller = reqs[q].caller /\ reqs[p].seen = reqs[q].seen
        /\ ~reqs[p].seen.force

\* C33: of two identical submissions of one user that overlap, neither
\* forced, both pass the duplicate check and both insert: every unforced
\* request that has passed the duplicate check, whether or not another one
\* has passed it too, answers OK and adds its ad when it gets to the creation.
C33_RacingSubmissionsBothInsert ==
    [][\A p \in Requests :
          (/\ reqs[p].pc = "passed" /\ ~reqs[p].seen.force
           /\ reqs'[p].pc = "idle"
           /\ AdCount < MaxAds) =>
              /\ last'.op = "submit" /\ last'.result = "OK"
              /\ \A k \in Kinds : reqs[p].ad_type = k => Len(Table(k)') = Len(Table(k)) + 1]_vars

\* POST /api/submit inserts no ad, alone or overlapping
C33_SubmitInsertsNothing ==
    [][last'.op = "submit" => (car_ads' = car_ads /\ plate_ads' = plate_ads)]_vars

----------------------------------------------------------------------------
(* Owner edits that overlap with the moderation                            *)

\* request p commits an edit whose body has at least one allowed field
CommitsEdit(p) ==
    /\ reqs[p].pc = "editing" /\ reqs'[p].pc = "idle"
    /\ last'.result = "OK"
    /\ (DOMAIN reqs[p].seen.body) \cap AllowedFields(reqs[p].ad_type) # {}

\* C34: right after the commit of an owner edit that carries at least one
\* allowed field the ad is pending, whatever approve or reject ran between
\* the load of the ad and the commit.
C34_EditedAdIsPending ==
    [][\A p \in Requests, k \in Kinds, i \in AdIds :
          (CommitsEdit(p) /\ reqs[p].ad_type = k /\ reqs[p].ad_id = i) =>
              Table(k)'[i].status = "pending"]_vars

\* C34 for the edits that no moderation overlaps: the ad is pending after the
\* commit when its row is still the one the request loaded
C34_UndisturbedEditIsPending ==
    [][\A p \in Requests, k \in Kinds, i \in AdIds :
          (/\ CommitsEdit(p) /\ reqs[p].ad_type = k /\ reqs[p].ad_id = i
           /\ Table(k)[i] = reqs[p].seen.ad) =>
              Table(k)'[i].status = "pending"]_vars

----------------------------------------------------------------------------
(* What the answer of an edit tells somebody who is not the owner          *)

\* C35: the answer of an edit called for an existing ad by somebody who is
\* not its owner is the same whatever the status of the ad: it is the answer
\* given for a pending ad, Forbidden, also when the ad is approved, rejected
\* or sold.
C35_AnswerHidesStatus ==
    [][\A k \in Kinds, i \in AdIds :
          (/\ last'.op = "edit" /\ last'.ad_type = k /\ last'.ad_id = i
           /\ i \in DOMAIN Table(k)
           /\ ~CalledByOwner(k, i, last')) =>
              last'.result = "Forbidden"]_vars

\* C35 for the ads that can be edited: the answer is the same for a pending
\* and for an approved ad
C35_AnswerHidesApproval ==
    [][\A k \in Kinds, i \in AdIds :
          (/\ last'.op = "edit" /\ last'.ad_type = k /\ last'.ad_id = i
           /\ i \in DOMAIN Table(k)
           /\ Table(k)[i].status \in {"pending", "approved"}
           /\ ~CalledByOwner(k, i, last')) =>
              last'.result = "Forbidden"]_vars

----------------------------------------------------------------------------
(* The purge of the rate limiter                                            *)

\* the answer of a limiter that never purges: it holds every allowed call of
\* the key and drops, at the check, those older than the longest window
Unpurged(key, t) ==
    LET timestamps == SelectSeq(granted[key], LAMBDA ts : ts > t - max_window)
        denying == {i \in DOMAIN submit_limits : exceeded(timestamps, t, submit_limits[i])}
        first == CHOOSE i \in denying : \A j \in denying : i <= j
    IN  [denied |-> denying # {},
         message |-> IF denying # {} THEN submit_limits[first].message ELSE NULL]

\* C36: the limiter with its periodic purge answers every check as a limiter
\* without the purge does, with the same denied and the same message, and a
\* key loses its timestamps to the purge only when none of them lies inside
\* the longest window.
C36_PurgeIsUnobservable ==
    [][/\ last'.op = "check" =>
            /\ last'.result = (IF Unpurged(last'.caller, now).denied THEN "Denied" ELSE "Allowed")
            /\ last'.effects = (IF Unpurged(last'.caller, now).denied
                                THEN <<Unpurged(last'.caller, now).message>> ELSE <<>>)
       /\ \A k \in TgIds :
            (store.keys[k] # <<>> /\ store'.keys[k] = <<>>) =>
                \A i \in DOMAIN store.keys[k] : store.keys[k][i] <= now' - max_window]_vars

\* a check of one key has purged the other key, which had allowed calls, and
\* the checked key had been purged before and is counted from zero again
C36_Witness ==
    \E k \in TgIds, other \in TgIds :
        /\ other # k
        /\ last.op = "check" /\ last.caller = k /\ last.result = "Allowed"
        /\ granted[other] # <<>> /\ store.keys[other] = <<>>
        /\ Len(granted[k]) > Len(store.keys[k])

----------------------------------------------------------------------------
(* The slot of a submission that fails                                      *)

\* C37: a submit call that is let through by the rate limiter takes one slot
\* of the submitter's key whatever happens to it afterwards (rejected or
\* failed): the key counts one more request in the 300 second window, and a
\* call made while three calls that were let through lie in the last 300
\* seconds is denied as rate limited, a valid one included.
C37_RejectedSubmitTakesSlot ==
    [][last'.op = "submit" =>
          LET tg == last'.caller IN
          /\ last'.result # "RateLimited" =>
                /\ Recent(store'.keys[tg], now, RULE_SHORT.window_seconds)
                     = Recent(store.keys[tg], now, RULE_SHORT.window_seconds) + 1
                /\ store'.keys[tg][Len(store'.keys[tg])] = now
          /\ InWindow(granted[tg], now, 300) >= 3 =>
                /\ last'.result = "RateLimited"
                /\ last'.effects = <<RULE_SHORT.message>>]_vars

\* a valid submission is denied after three submissions of the same user,
\* each let through and then rejected or failed, one of them for its data
C37_Witness ==
    /\ last.op = "submit" /\ last.result = "RateLimited"
    /\ SubValid(last.ad_type, SubData(last))
    /\ Len(granted[last.caller]) = 3
    /\ now - granted[last.caller][1] < 300
    /\ car_ads = <<>> /\ plate_ads = <<>>

----------------------------------------------------------------------------
(* The edit that names no allowed field                                     *)

\* the request is an edit of row i of table k, pending or approved, called by
\* its owner with a body that has no allowed field
EmptyEdit(k, i, l) ==
    /\ l.op = "edit" /\ l.ad_type = k /\ l.ad_id = i
    /\ i \in DOMAIN Table(k)
    /\ Table(k)[i].status \notin TERMINAL
    /\ CalledByOwner(k, i, l)
    /\ (DOMAIN l.body) \cap AllowedFields(k) = {}

\* C38: an edit by the owner whose body has no allowed field (an empty body
\* or unknown keys only) succeeds and leaves the ad as it was, status
\* included: an approved ad stays approved.
C38_EmptyEditSucceeds ==
    [][\A k \in Kinds, i \in AdIds :
          EmptyEdit(k, i, last') =>
              /\ last'.result = "OK"
              /\ Table(k)'[i] = Table(k)[i]]_vars

\* what the edit without an allowed field does keep: the ad is left as it
\* was, status included, and the answer is OK unless the stored values of
\* the ad fail the validator
C38_EmptyEditKeepsAd ==
    [][\A k \in Kinds, i \in AdIds :
          EmptyEdit(k, i, last') =>
              /\ Table(k)'[i] = Table(k)[i]
              /\ last'.result \in {"OK", "ValidationErrors"}
              /\ last'.result = "OK" <=> validator_fn(k, current_data(k, Table(k)[i])) = <<>>]_vars

\* the owner's edit with unknown keys only of an approved ad was answered OK
C38_Witness ==
    /\ last.op = "edit" /\ last.result = "OK" /\ last.body = UnknownKey
    /\ last.pre = "approved"
    /\ Table(last.ad_type)[last.ad_id].status = "approved"

\* the owner's empty edit of an ad the bot stored was refused
C38_Refused ==
    /\ last.op = "edit" /\ last.result = "ValidationErrors" /\ last.body = EmptyBody
    /\ last.ad_id \in DOMAIN Table(last.ad_type)
    /\ CalledByOwner(last.ad_type, last.ad_id, last)

----------------------------------------------------------------------------
(* The photo rows of an ad                                                  *)

----------------------------------------------------------------------------
(* Termination of the collector                                             *)

\* the photos the open session of tg still takes
PhotosLeft(tg) == (IF fsm[tg].ad_type = "car_ad" THEN 10 ELSE 5) - fsm[tg].photo_count

\* the run has steps left for every photo the session of tg still takes
Runway(tg) == steps + PhotosLeft(tg) <= MaxCollectSteps

\* the session of tg refers to row i of table k
SessionOf(tg, k, i) ==
    InPhotoCollect(tg) /\ fsm[tg].ad_id = i /\ photo_ad_type(fsm[tg].ad_type) = k

\* C40: a collector session ends when its user makes progress.  A done or
\* skip signal in waiting_photos leads to idle in one step; every photo of
\* an open session is taken below the maximum of the kind (10 for a car ad,
\* 5 for a plate ad) and either counts one more or ends the session, so a
\* user who keeps sending photos reaches idle after at most that many
\* photos; photo rows are added to an ad only through the open session of
\* that ad, and a session is opened only for an ad created in the same step,
\* so no photo is attached to the ad after its session has reached idle.
C40_SessionTerminates ==
    /\ [][\A tg \in TgIds :
            (InPhotoCollect(tg) /\ last'.caller = tg) =>
                /\ last'.op \in {"skip", "done", "finish"} => fsm'[tg].state = "idle"
                /\ last'.op = "photo" =>
                      /\ PhotosLeft(tg) > 0
                      /\ \/ fsm'[tg].state = "idle" /\ PhotosLeft(tg) = 1
                         \/ /\ fsm'[tg] = [fsm[tg] EXCEPT !.photo_count = @ + 1]
                            /\ PhotosLeft(tg) > 1]_vars
    /\ [][\A k \in Kinds, i \in AdIds :
            /\ RowsOf(ad_photos', k, i) # RowsOf(ad_photos, k, i) =>
                  \E tg \in TgIds : SessionOf(tg, k, i) /\ last'.op = "photo" /\ last'.caller = tg
            /\ \A tg \in TgIds :
                  (~SessionOf(tg, k, i) /\ SessionOf(tg, k, i)') => i \notin DOMAIN Table(k)]_vars
    /\ \A tg \in TgIds : (InPhotoCollect(tg) /\ Runway(tg)) ~> ~InPhotoCollect(tg)

\* the session of a plate ad has reached idle by its fifth photo
C40_Witness ==
    /\ last.op = "photo" /\ last.result = "Finished" /\ last.ad_type = "plate"
    /\ last.body = [photo_count |-> JInt(4)]
    /\ fsm[last.caller].state = "idle"
    /\ Cardinality(RowsOf(ad_photos, "plate", last.ad_id)) = 5
    /\ steps < MaxCollectSteps

====
